---- MODULE Spec2Model ----
(***************************************************************************)
(* A model of picartTool: the authenticated upload session of              *)
(* src/api_handler.py (login, ensure_login, _handle_auth_error,            *)
(* upload_files, submit_article) and the Job pipeline and temporary        *)
(* directory cleanup of src/file_processor.py.                             *)
(***************************************************************************)
EXTENDS Integers, Sequences, FiniteSets, TLC

(***************************************************************************)
(* Bounds of the model.                                                    *)
(***************************************************************************)
\* largest value of config.max_retries that is explored (the GUI allows 1..10)
MaxRetriesBound == 3
\* largest number of eligible images found by one upload_files call
MaxImages == 3
\* largest value of config.upload_batch_size that is explored
MaxBatchSize == 2
\* the history counters of requests saturate at this value
CountCap == 2
\* last clock second in which a staging directory is allocated
MaxTime == 1
\* number of Jobs the caller starts
MaxJobs == 2
\* longest file name given to the natural sort key
MaxTextLen == 3
\* largest number of files in the directory given to _rename_files
MaxFiles == 3
\* largest number of configured passwords (config.passwords)
MaxPasswords == 2
\* the length of the names given to clean_filename
MaxNameLen == 3
\* largest max_retries and number of images explored with two concurrent Jobs
ConcRetries == 2
ConcImages == 2

(***************************************************************************)
(* Program constants.                                                      *)
(***************************************************************************)
\* time.sleep((attempt + 1) * 5): the unit of the linear backoff
BackoffUnit == 5

Threads == {"T1", "T2"}

\* values of config.access_token: "" is "no token cached"
Tokens == {"tokA", "tokB"}
NoToken == ""

\* the session's Authorization header: absent, or 'Bearer ' + token
NoHeader == "<absent>"
Bearer(token) == "Bearer " \o token

HttpStatuses == {200, 201, 401, 403, 500}
ApiCodes == {0, 200, 201, 400}

VARIABLES
    \* ---- Config (shared by every handler of the process)
    max_retries,         \* config.max_retries
    upload_batch_size,   \* config.upload_batch_size
    access_token,        \* config.access_token
    \* ---- APIHandler, one per thread
    threads,             \* the threads that call into their handler
    authorization,       \* session.headers['Authorization'] of the thread's handler
    pc,                  \* where the thread's current call stands
    loginCaller,         \* who called login: "login", "ensure_login", "upload_files", "submit_article"
    loginAttempt,        \* `attempt` of login's loop
    attempt,             \* `attempt` of the loop of upload_files / submit_article
    total_images,        \* len(all_images) of the running upload_files call
    batchStart,          \* `i` of upload_files' batch loop
    all_uploaded_urls,   \* the URLs collected so far (each URL is named by its batch number)
    returned,            \* the operation that returned last ("none" before any)
    retBool,             \* the value returned by login / ensure_login / submit_article
    retUrls,             \* the list returned by upload_files
    \* ---- history of the running (or last) call, for the properties
    slept,               \* the sleeps of the running login call, in order
    loginSent,           \* login requests sent by the running login call
    loginFailed,         \* login requests of the running login call that failed
    loginRequests,       \* login requests sent during the operation (saturating)
    authErrors,          \* 401/403 answers to upload/article requests in the operation (saturating)
    otherFailures,       \* some login request failed or some request failed otherwise
    authBatch,           \* batch number that last got a 401/403 (0: none)
    resent,              \* the batch authBatch was sent again after its 401/403
    expired,             \* a 401/403 was received and no login has succeeded since
    exhaustedBatch,      \* batch number that used up its attempts (0: none)
    lastSentBatch        \* batch number of the last upload request (0: none)

cfgVars == <<max_retries, upload_batch_size>>
apiVars == <<access_token, threads, authorization, pc, loginCaller, loginAttempt, attempt,
             total_images, batchStart, all_uploaded_urls, returned, retBool, retUrls>>
histVars == <<slept, loginSent, loginFailed, loginRequests, authErrors, otherFailures,
              authBatch, resent, expired, exhaustedBatch, lastSentBatch>>

VARIABLES
    \* ---- more history of the running (or last) call, for the properties
    articleResponse,     \* the answer to the latest article request
    batchSent,           \* upload requests sent for the batch at batchStart
    uploaded,            \* the batches that succeeded, in order: the images of each
    lastFailure,         \* the latest of them that failed: its kind, its place, the sleep after it
    tokenAtLogin,        \* config.access_token when the running (or last) login call began
    headerAtLogin        \* the Authorization header when that call began

auditVars == <<articleResponse, batchSent, uploaded, lastFailure, tokenAtLogin,
               headerAtLogin>>

VARIABLES
    \* ---- Config flags and the platform
    skip_login,          \* config.skip_login
    enable_upload,       \* config.enable_upload
    enable_publish,      \* config.enable_publish
    os_name,             \* os.name: "nt" or "posix"
    \* ---- the world of the FileProcessor
    now,                 \* int(time.time()), the clock second
    fs,                  \* the staging directories under config.temp_dir, by path
    bg,                  \* the background cleanup threads: the directories each has left
    \* ---- FileProcessor and the Job its worker thread runs
    temp_dirs_to_cleanup, \* self.temp_dirs_to_cleanup
    jpc,                 \* where the worker stands in process_file and its callees
    entry,               \* the method the caller invoked
    inputKind,           \* "folder" (os.path.isdir(path)) or "archive"
    inputValid,          \* the input passes the validation of process_folder/_archive
    pending,             \* the value process_folder/_archive returns after its finally
    jobResult,           \* how the last call ended: "none", "True", "False", "raised"
    todo,                \* the part of unique_dirs the cleanup loop has not visited
    cleaned,             \* directories counted in cleaned_count
    failed,              \* directories counted in failed_count
    skipped,             \* directories counted in skipped_count
    \* ---- history, for the properties
    jobNo,               \* number of Jobs started
    allocatedBy,         \* path |-> the Jobs that allocated it
    jobDirs,             \* staging directories the running (or last) Job allocated
    cleanupRuns,         \* runs of cleanup_temp_directories in the running (or last) call
    escalated,           \* directories _try_cleanup_directory was applied to in the call
    handed,              \* directories passed to _schedule_background_cleanup in the call
    esc,                 \* what _try_cleanup_directory did in the step just taken, if it ran
    stagesRun,           \* the stages of the pipeline the running Job has run, in order
    stageFailed          \* the stage of the running Job that failed ("none": none)

flagVars == <<skip_login, enable_upload, enable_publish, os_name>>
worldVars == <<now, fs, bg>>
procVars == <<temp_dirs_to_cleanup, jpc, entry, inputKind, inputValid, pending, jobResult,
              todo, cleaned, failed, skipped>>
jobHist == <<jobNo, allocatedBy, jobDirs, cleanupRuns, escalated, handed, esc>>
stageHist == <<stagesRun, stageFailed>>
jobVars == <<flagVars, worldVars, procVars, jobHist, stageHist>>
\* the handlers' own state: everything of the upload session but the shared token
handlerVars == <<threads, authorization, pc, loginCaller, loginAttempt, attempt,
                 total_images, batchStart, all_uploaded_urls, returned, retBool, retUrls>>

VARIABLES
    \* ---- CompressionHandler.extract_file, the call in progress
    xpc,                 \* where the call stands: "idle", "first", "scan"
    passwords,           \* the argument passwords (config.passwords)
    original_name,       \* the argument original_name
    secret,              \* the password the archive was made with (NoPassword: none)
    all_passwords,       \* the candidate list built at lines 82-85
    candidate,           \* index in all_passwords of the for loop
    dest_dir,            \* what dest_dir holds: NoFile, or the attribute of its content
    extractResult,       \* how the last call ended: "none", "True", "False", "raised"
    \* ---- history, for the properties
    attempts,            \* the invocations of 7z by the call, in order
    outcome              \* how the latest invocation of 7z ended

extractVars == <<xpc, passwords, original_name, secret, all_passwords, candidate, dest_dir,
                 extractResult, attempts, outcome>>

VARIABLES
    \* ---- the names of the archives (process_archive, _create_zst_archive)
    safe_title,          \* safe_title, the title the archive is named after
    zip_name,            \* zip_name, the path passed as output_file ("": none yet)
    inner_7z_path,       \* the path inner_7z_file ("": none yet)
    \* ---- CompressionHandler.create_archive, the call in progress
    apc,                 \* where the call stands: "idle", "standard", "inner", "wrap"
    format_type,         \* the argument format_type
    inner_7z_file,       \* the file <base_name>.7z: NoFile, "empty" (0 bytes) or its attribute
    output_file,         \* the file output_file, likewise
    archiveResult,       \* how the last call ended: "none", "True", "False"
    \* ---- history, for the properties
    innerOutcome,        \* how the 7z run that makes the inner archive ended
    wrapOutcome          \* how the 7z run that wraps it ended

archiveVars == <<safe_title, zip_name, inner_7z_path, apc, format_type, inner_7z_file,
                output_file, archiveResult, innerOutcome, wrapOutcome>>


VARIABLES
    \* ---- FileProcessor._rename_files on the copies of a directory
    tree,                \* copy |-> the files of the directory: where each is, what it holds
    rpc,                 \* where the call stands: "idle", "loop"
    runNo,               \* the call of the schedule that runs or is next
    all_files,           \* the part of the sorted all_files the loop has not visited
    img_count,           \* img_count
    video_count,         \* video_count
    \* ---- history, for the properties
    sortedAtStart,       \* the files of the running (or last) call in the order of all_files
    renamed,             \* the first copy as its first call left it
    moveFailed           \* some shutil.move of the calls so far raised

renameVars == <<tree, rpc, runNo, all_files, img_count, video_count, sortedAtStart, renamed,
                moveFailed>>

VARIABLES
    \* ---- _natural_sort_key applied to two names
    text1,               \* one file name
    text2,               \* another file name
    compared,            \* key(text1) against key(text2): "none" before the comparison
    comparedApi          \* the same with the key of APIHandler

keyVars == <<text1, text2, compared, comparedApi>>

VARIABLES
    \* ---- FileNameCleaner.clean_filename applied twice
    fileName,            \* filename, the argument of the first call
    cleanOnce,           \* clean_filename(fileName): <<>> before the call
    cleanTwice,          \* clean_filename(cleanOnce): <<>> before the call
    usedFallback         \* the first call took the branch of lines 65-66

cleanVars == <<fileName, cleanOnce, cleanTwice, usedFallback>>

VARIABLES
    \* ---- the stages of process_folder that follow _rename_files
    mpc,                 \* where they stand: "idle", "compress", "upload", "done"
    output_format,       \* config.image_format as compress_images takes it
    files_to_process,    \* the part of files_to_process compress_images has not visited
    skipped_gifs,        \* skipped_gifs of the collection made last
    all_images,          \* all_images of upload_files
    \* ---- history, for the properties
    encoderInputs,       \* the files given to ffmpeg with -i
    reencoded            \* the files ffmpeg wrote and compress_images kept

mediaVars == <<mpc, output_format, files_to_process, skipped_gifs, all_images, encoderInputs,
               reencoded>>

VARIABLES
    \* ---- FileProcessor._process_extracted_files, the call in progress
    fpc,                 \* where the call stands: "idle", "moving", "rename", "raised"
    temp_dir,            \* what the extraction root holds
    processed_dir,       \* what the staging directory holds
    toMove,              \* the paths the loop of shutil.move has not visited
    \* ---- history, for the properties
    extractedFiles       \* what the extraction root held when the call began

flattenVars == <<fpc, temp_dir, processed_dir, toMove, extractedFiles>>

VARIABLES
    \* ---- process_folder / process_archive called on an input, stage by stage
    spc,                 \* the stage that runs next ("idle": no call, "done": returned)
    sKind,               \* "folder" (process_folder) or "archive" (process_archive)
    delete_source_files, \* config.delete_source_files
    pendingResult,       \* the value the method returns after its finally
    sResult,             \* what the call returned: "none", "True", "False"
    staged,              \* the images of the staging directory: "none", "original", "reencoded"
    archiveHolds,        \* the images in the final archive, likewise
    source,              \* the input: "intact" or "deleted"
    \* ---- history, for the properties
    stageLog,            \* the stages the call has run, in order
    failedStage          \* the stage that returned a failure or raised ("none": none)

stageVars == <<spc, sKind, delete_source_files, pendingResult, sResult, staged, archiveHolds,
               source, stageLog, failedStage>>

VARIABLES
    \* ---- one call of upload_files, with the files it opens
    upc,                 \* "idle", "attempt" (line 140), "post" (146), "failed" (179), "done"
    uImages,             \* len(all_images)
    uStart,              \* `i` of the batch loop
    uAttempt,            \* `attempt` of the retry loop
    batchFiles,          \* the file objects the local list `files` refers to
    openHandles,         \* the file objects that are open, each <<i, attempt, image>>
    uResult              \* what the call returned: "none", "urls", "empty"

handleVars == <<upc, uImages, uStart, uAttempt, batchFiles, openHandles, uResult>>

\* the state of the calls modelled on their own
lateVars == <<flattenVars, stageVars, handleVars>>
\* the state of the calls into the CompressionHandler and the renaming
toolVars == <<extractVars, archiveVars, renameVars, keyVars, cleanVars, mediaVars, lateVars>>
\* the state of the upload session and of the Jobs
processVars == <<cfgVars, apiVars, histVars, auditVars, jobVars>>
otherThanExtract == <<processVars, archiveVars, renameVars, keyVars, cleanVars, mediaVars,
    lateVars>>
otherThanArchive == <<processVars, extractVars, renameVars, keyVars, cleanVars, mediaVars,
    lateVars>>
otherThanRename == <<processVars, extractVars, archiveVars, keyVars, cleanVars, mediaVars,
    lateVars>>
otherThanKey == <<processVars, extractVars, archiveVars, renameVars, cleanVars, mediaVars,
    lateVars>>
otherThanClean == <<processVars, extractVars, archiveVars, renameVars, keyVars, mediaVars,
    lateVars>>
otherThanMedia == <<processVars, extractVars, archiveVars, keyVars, cleanVars, lateVars>>
otherThanFlatten == <<processVars, extractVars, archiveVars, renameVars, keyVars, cleanVars,
                      mediaVars, stageVars, handleVars>>
otherThanStages == <<processVars, extractVars, archiveVars, renameVars, keyVars, cleanVars,
                     mediaVars, flattenVars, handleVars>>
otherThanHandles == <<processVars, extractVars, archiveVars, renameVars, keyVars, cleanVars,
                      mediaVars, flattenVars, stageVars>>
vars == <<processVars, toolVars>>

Sat(n) == IF n >= CountCap THEN CountCap ELSE n

(***************************************************************************)
(* Responses of the remote API (the environment chooses them).             *)
(***************************************************************************)
LoginResponses ==
    [exc : {FALSE}, status : HttpStatuses, code : ApiCodes, token : Tokens \cup {NoToken}]
    \cup {[exc |-> TRUE, status |-> 500, code |-> 400, token |-> NoToken]}

\* the list comprehension of line 159 keeps nurls URLs
UploadResponses(batchLen) ==
    [exc : {FALSE}, status : HttpStatuses, code : ApiCodes, nurls : 0..batchLen]
    \cup {[exc |-> TRUE, status |-> 500, code |-> 400, nurls |-> 0]}

\* the JSON values the code reads with .get(): "object" is a JSON object (or the
\* key is absent and the default {} is taken), "other" is null, a list or a string
JsonShapes == {"object", "other"}

\* an article answer: `data` is the shape of body['data'], `success` its success
\* flag and `inner` the shape of body['data']['data'] (both only when it is an object)
ArticleResponses ==
    [exc : {FALSE}, status : HttpStatuses, code : ApiCodes, success : BOOLEAN,
     data : {"object"}, inner : JsonShapes]
    \cup [exc : {FALSE}, status : HttpStatuses, code : ApiCodes, success : {FALSE},
          data : {"other"}, inner : {"object"}]
    \cup {[exc |-> TRUE, status |-> 500, code |-> 400, success |-> FALSE,
           data |-> "object", inner |-> "object"]}

\* no upload request of the batch has failed
NoFailure == [kind |-> "none", k |-> 0, secs |-> 0]

\* before any article request
NoResponse == [exc |-> TRUE, status |-> 0, code |-> 400, success |-> FALSE,
               data |-> "object", inner |-> "object"]

HttpSuccess(status) == status \in {200, 201}
CodeAccepted(code) == code \in {0, 200, 201}
IsAuthError(status) == status \in {401, 403}

\* login, lines 67-75
LoginAccepted(r) ==
    ~r.exc /\ HttpSuccess(r.status) /\ CodeAccepted(r.code) /\ r.token # NoToken

\* upload_files, lines 156-163
UploadAccepted(r) ==
    ~r.exc /\ HttpSuccess(r.status) /\ CodeAccepted(r.code) /\ r.nurls > 0

\* a variant that wants the accepted code and the success flag together
ArticleAcceptedByBoth(r) ==
    /\ ~r.exc /\ HttpSuccess(r.status)
    /\ r.data = "object" /\ r.inner = "object"
    /\ CodeAccepted(r.code) /\ r.success

\* submit_article, lines 210-224: `return True` is reached when the status is
\* 200/201, data.get('data', {}).get('success', False) does not raise (line 214),
\* the code is accepted or the flag is set (line 217), and
\* data.get('data', {}).get('data', {}).get('id') does not raise (lines 220-221);
\* an AttributeError of either .get goes to the except of line 240
ArticleAccepted(r) ==
    /\ ~r.exc /\ HttpSuccess(r.status)
    /\ r.data = "object"
    /\ (CodeAccepted(r.code) \/ r.success)
    /\ r.inner = "object"

\* time.sleep((attempt + 1) * 5), attempt counted from 0
BackoffSeconds(att) == (att + 1) * BackoffUnit

\* a variant that also sleeps after the last attempt
SleepsAfterEveryAttempt(att) == att < max_retries

\* `if attempt < self.config.max_retries - 1:` guards the sleep
SleepsAfter(att) == att < max_retries - 1

\* `for attempt in range(self.config.max_retries)`: is there another iteration
HasNextAttempt(att) == att + 1 < max_retries

(***************************************************************************)
(* upload_files: batches.                                                  *)
(***************************************************************************)
Min(a, b) == IF a < b THEN a ELSE b
Max(a, b) == IF a > b THEN a ELSE b
\* batch_num = (i // batch_size) + 1
BatchNum(i) == (i \div upload_batch_size) + 1
\* len(all_images[i:i + batch_size])
BatchLen(i, n) == Min(i + upload_batch_size, n) - i
\* total_batches = (total_images + batch_size - 1) // batch_size
TotalBatches(n) == (n + upload_batch_size - 1) \div upload_batch_size
Repeat(x, k) == [j \in 1..k |-> x]
\* current_batch = all_images[i:i + batch_size]; an image is named by its place
\* in the sorted all_images
current_batch(i, n) == [j \in 1..BatchLen(i, n) |-> i + j]

(***************************************************************************)
(* Initial state of the upload session: APIHandler.__init__ sets no        *)
(* Authorization header; the Config may hold a token saved earlier.        *)
(***************************************************************************)
InitHandlers ==
    /\ authorization = [t \in Threads |-> NoHeader]
    /\ pc = [t \in Threads |-> "idle"]
    /\ loginCaller = [t \in Threads |-> "login"]
    /\ loginAttempt = [t \in Threads |-> 0]
    /\ attempt = [t \in Threads |-> 0]
    /\ total_images = [t \in Threads |-> 0]
    /\ batchStart = [t \in Threads |-> 0]
    /\ all_uploaded_urls = [t \in Threads |-> <<>>]
    /\ returned = [t \in Threads |-> "none"]
    /\ retBool = [t \in Threads |-> FALSE]
    /\ retUrls = [t \in Threads |-> <<>>]
    /\ slept = [t \in Threads |-> <<>>]
    /\ loginSent = [t \in Threads |-> 0]
    /\ loginFailed = [t \in Threads |-> 0]
    /\ loginRequests = [t \in Threads |-> 0]
    /\ authErrors = [t \in Threads |-> 0]
    /\ otherFailures = [t \in Threads |-> FALSE]
    /\ authBatch = [t \in Threads |-> 0]
    /\ resent = [t \in Threads |-> FALSE]
    /\ expired = [t \in Threads |-> FALSE]
    /\ exhaustedBatch = [t \in Threads |-> 0]
    /\ lastSentBatch = [t \in Threads |-> 0]
    /\ articleResponse = NoResponse
    /\ batchSent = [t \in Threads |-> 0]
    /\ lastFailure = [t \in Threads |-> NoFailure]
    /\ uploaded = [t \in Threads |-> <<>>]
    /\ tokenAtLogin = [t \in Threads |-> NoToken]
    /\ headerAtLogin = [t \in Threads |-> NoHeader]

\* the history of an operation starts empty when the operation is called
ResetHistory(t) ==
    /\ loginRequests' = [loginRequests EXCEPT ![t] = 0]
    /\ authErrors' = [authErrors EXCEPT ![t] = 0]
    /\ otherFailures' = [otherFailures EXCEPT ![t] = FALSE]
    /\ authBatch' = [authBatch EXCEPT ![t] = 0]
    /\ resent' = [resent EXCEPT ![t] = FALSE]
    /\ expired' = [expired EXCEPT ![t] = FALSE]
    /\ exhaustedBatch' = [exhaustedBatch EXCEPT ![t] = 0]
    /\ lastSentBatch' = [lastSentBatch EXCEPT ![t] = 0]
    /\ articleResponse' = NoResponse

\* control enters login(): `for attempt in range(max_retries)` starts at 0
EnterLogin(t, caller, token, header) ==
    /\ pc' = [pc EXCEPT ![t] = "login"]
    /\ loginCaller' = [loginCaller EXCEPT ![t] = caller]
    /\ loginAttempt' = [loginAttempt EXCEPT ![t] = 0]
    /\ slept' = [slept EXCEPT ![t] = <<>>]
    /\ loginSent' = [loginSent EXCEPT ![t] = 0]
    /\ loginFailed' = [loginFailed EXCEPT ![t] = 0]
    /\ tokenAtLogin' = [tokenAtLogin EXCEPT ![t] = token]
    /\ headerAtLogin' = [headerAtLogin EXCEPT ![t] = header]

\* history: no upload request has been sent for the batch the loop turns to
NewBatch(t) ==
    /\ batchSent' = [batchSent EXCEPT ![t] = 0]
    /\ lastFailure' = [lastFailure EXCEPT ![t] = NoFailure]

\* the locals of upload_files / submit_article before the call
ResetUploadLocals(t) ==
    /\ attempt' = [attempt EXCEPT ![t] = 0]
    /\ total_images' = [total_images EXCEPT ![t] = 0]
    /\ batchStart' = [batchStart EXCEPT ![t] = 0]
    /\ all_uploaded_urls' = [all_uploaded_urls EXCEPT ![t] = <<>>]
    /\ uploaded' = [uploaded EXCEPT ![t] = <<>>]
    /\ NewBatch(t)

\* login's locals when no login call has run in the operation
ResetLoginLocals(t) ==
    /\ loginCaller' = [loginCaller EXCEPT ![t] = "login"]
    /\ loginAttempt' = [loginAttempt EXCEPT ![t] = 0]
    /\ slept' = [slept EXCEPT ![t] = <<>>]
    /\ loginSent' = [loginSent EXCEPT ![t] = 0]
    /\ loginFailed' = [loginFailed EXCEPT ![t] = 0]
    /\ tokenAtLogin' = [tokenAtLogin EXCEPT ![t] = NoToken]
    /\ headerAtLogin' = [headerAtLogin EXCEPT ![t] = NoHeader]

\* nothing has returned yet
NoResult(t) ==
    /\ returned' = [returned EXCEPT ![t] = "none"]
    /\ retBool' = [retBool EXCEPT ![t] = FALSE]
    /\ retUrls' = [retUrls EXCEPT ![t] = <<>>]

loginLocals == <<loginCaller, loginAttempt, slept, loginSent, loginFailed, tokenAtLogin,
                 headerAtLogin>>
batchHist == <<batchSent, uploaded, lastFailure>>
uploadHist == <<authBatch, resent, exhaustedBatch, lastSentBatch>>

(***************************************************************************)
(* The calls a thread makes into its handler.                              *)
(***************************************************************************)
\* login() called directly
CallLogin(t) ==
    /\ t \in threads /\ pc[t] = "idle"
    /\ EnterLogin(t, "login", access_token, authorization[t])
    /\ ResetHistory(t)
    /\ ResetUploadLocals(t)
    /\ NoResult(t)
    /\ UNCHANGED <<jobVars, toolVars, cfgVars, access_token, threads, authorization>>

\* is_token_valid(): a cached token is trusted; the header is restored if missing
HeaderAfterTokenCheck(header, token) ==
    IF header = NoHeader THEN Bearer(token) ELSE header

\* a variant that never trusts the cached token
is_token_never_valid(token) == FALSE

\* is_token_valid(): `if not self.config.access_token: return False`, else True
is_token_valid(token) == token # NoToken

\* ensure_login(): returns True at once with a cached token, else runs login()
ensure_login(t) ==
    /\ t \in threads /\ pc[t] = "idle"
    /\ ResetHistory(t)
    /\ IF is_token_valid(access_token)
         THEN /\ authorization' = [authorization EXCEPT
                                     ![t] = HeaderAfterTokenCheck(@, access_token)]
              /\ returned' = [returned EXCEPT ![t] = "ensure_login"]
              /\ retBool' = [retBool EXCEPT ![t] = TRUE]
              /\ retUrls' = [retUrls EXCEPT ![t] = <<>>]
              /\ ResetLoginLocals(t)
              /\ pc' = pc
         ELSE /\ EnterLogin(t, "ensure_login", access_token, authorization[t])
              /\ NoResult(t)
              /\ UNCHANGED authorization
    /\ ResetUploadLocals(t)
    /\ UNCHANGED <<jobVars, toolVars, cfgVars, access_token, threads>>

\* upload_files(directory) with n eligible images: no image returns [] at once
CallUploadFiles(t, n) ==
    /\ t \in threads /\ pc[t] = "idle"
    /\ ResetHistory(t)
    /\ total_images' = [total_images EXCEPT ![t] = n]
    /\ batchStart' = [batchStart EXCEPT ![t] = 0]
    /\ attempt' = [attempt EXCEPT ![t] = 0]
    /\ all_uploaded_urls' = [all_uploaded_urls EXCEPT ![t] = <<>>]
    /\ uploaded' = [uploaded EXCEPT ![t] = <<>>]
    /\ NewBatch(t)
    /\ IF n = 0
         THEN /\ returned' = [returned EXCEPT ![t] = "upload_files"]
              /\ retUrls' = [retUrls EXCEPT ![t] = <<>>]
              /\ retBool' = [retBool EXCEPT ![t] = FALSE]
              /\ pc' = pc
         ELSE /\ pc' = [pc EXCEPT ![t] = "upload"]
              /\ NoResult(t)
    /\ ResetLoginLocals(t)
    /\ UNCHANGED <<jobVars, toolVars, cfgVars, access_token, threads, authorization>>

\* submit_article(title, images, cover)
CallSubmitArticle(t) ==
    /\ t \in threads /\ pc[t] = "idle"
    /\ ResetHistory(t)
    /\ ResetUploadLocals(t)
    /\ ResetLoginLocals(t)
    /\ NoResult(t)
    /\ pc' = [pc EXCEPT ![t] = "submit"]
    /\ UNCHANGED <<jobVars, toolVars, cfgVars, access_token, threads, authorization>>

(***************************************************************************)
(* login(): one iteration of its loop per step.                            *)
(***************************************************************************)
\* a variant in which the re-login does not use up an iteration
AttemptKeptAfterRelogin(att) == att

\* `continue` after a successful re-login: the for loop moves to its next attempt
AttemptAfterRelogin(att) == att + 1

\* a variant that returns what was collected before the failing batch
ExhaustedResultPartial(urls) == urls

\* what upload_files returns when a batch has used up its attempts (line 183)
ExhaustedResult(urls) == <<>>

\* login() returns `ok` to its caller, which goes on from the call
ReturnFromLogin(t, ok) ==
    LET caller == loginCaller[t]
        retry == ok /\ AttemptAfterRelogin(attempt[t]) < max_retries
    IN  IF caller \in {"login", "ensure_login"}
          THEN /\ pc' = [pc EXCEPT ![t] = "idle"]
               /\ returned' = [returned EXCEPT ![t] = caller]
               /\ retBool' = [retBool EXCEPT ![t] = ok]
               /\ UNCHANGED <<attempt, retUrls, exhaustedBatch>>
          ELSE IF retry
          THEN \* _handle_auth_error returned True: `continue`
               /\ pc' = [pc EXCEPT ![t] = IF caller = "upload_files" THEN "upload" ELSE "submit"]
               /\ attempt' = [attempt EXCEPT ![t] = AttemptAfterRelogin(@)]
               /\ UNCHANGED <<returned, retBool, retUrls, exhaustedBatch>>
          ELSE \* re-login failed, or the loop has no iteration left
               /\ pc' = [pc EXCEPT ![t] = "idle"]
               /\ returned' = [returned EXCEPT ![t] = caller]
               /\ attempt' = attempt
               /\ IF caller = "upload_files"
                    THEN /\ retUrls' = [retUrls EXCEPT
                               ![t] = IF ok THEN ExhaustedResult(all_uploaded_urls[t]) ELSE <<>>]
                         /\ exhaustedBatch' = [exhaustedBatch EXCEPT
                               ![t] = IF ok THEN BatchNum(batchStart[t]) ELSE @]
                         /\ retBool' = retBool
                    ELSE /\ retBool' = [retBool EXCEPT ![t] = FALSE]
                         /\ UNCHANGED <<retUrls, exhaustedBatch>>

\* a variant that stores the token and leaves the session's header as it is
StoreTokenOnly(t, token) ==
    /\ access_token' = token
    /\ authorization' = authorization

\* lines 72-73: the token goes to config.access_token and, as 'Bearer ' + token,
\* to the session's Authorization header
StoreCredential(t, token) ==
    /\ access_token' = token
    /\ authorization' = [authorization EXCEPT ![t] = Bearer(token)]

\* a login request answered 200/201 with an accepted code and a token (lines 67-75)
LoginSucceeds(t) ==
    /\ pc[t] = "login"
    /\ \E r \in LoginResponses :
         /\ LoginAccepted(r)
         /\ StoreCredential(t, r.token)
    /\ loginSent' = [loginSent EXCEPT ![t] = @ + 1]
    /\ loginRequests' = [loginRequests EXCEPT ![t] = Sat(@ + 1)]
    /\ expired' = [expired EXCEPT ![t] = FALSE]
    /\ ReturnFromLogin(t, TRUE)
    /\ UNCHANGED <<jobVars, toolVars, cfgVars, threads, loginCaller, loginAttempt, total_images, batchStart,
                   all_uploaded_urls, slept, loginFailed, authErrors, otherFailures,
                   authBatch, resent, lastSentBatch, auditVars>>

\* a variant in which a failed login request drops the cached token and the header
DropsCredential(t) ==
    /\ access_token' = NoToken
    /\ authorization' = [authorization EXCEPT ![t] = NoHeader]

\* lines 77-85: the failure path of login assigns neither config.access_token nor
\* the Authorization header
KeepsCredential(t) ==
    /\ access_token' = access_token
    /\ authorization' = authorization

\* a login request that fails (lines 77-85): sleep and go round, or give up
LoginAttemptFails(t) ==
    /\ pc[t] = "login"
    /\ KeepsCredential(t)
    /\ (\E r \in LoginResponses : ~LoginAccepted(r)) = TRUE
    /\ loginSent' = [loginSent EXCEPT ![t] = @ + 1]
    /\ loginFailed' = [loginFailed EXCEPT ![t] = @ + 1]
    /\ loginRequests' = [loginRequests EXCEPT ![t] = Sat(@ + 1)]
    /\ otherFailures' = [otherFailures EXCEPT ![t] = TRUE]
    /\ slept' = [slept EXCEPT ![t] = IF SleepsAfter(loginAttempt[t])
                                       THEN Append(@, BackoffSeconds(loginAttempt[t]))
                                       ELSE @]
    /\ IF HasNextAttempt(loginAttempt[t])
         THEN /\ loginAttempt' = [loginAttempt EXCEPT ![t] = @ + 1]
              /\ UNCHANGED <<pc, attempt, returned, retBool, retUrls, exhaustedBatch>>
         ELSE /\ loginAttempt' = loginAttempt
              /\ ReturnFromLogin(t, FALSE)
    /\ UNCHANGED <<jobVars, toolVars, cfgVars, threads, loginCaller, total_images,
                   batchStart, all_uploaded_urls, authErrors, authBatch, resent, expired,
                   lastSentBatch, auditVars>>

\* a variant of _handle_auth_error that forgets to clear the cached token
handle_auth_error_keeping_token(t) ==
    /\ access_token' = access_token
    /\ authorization' = [authorization EXCEPT ![t] = NoHeader]
    /\ EnterLogin(t, IF pc[t] = "upload" THEN "upload_files" ELSE "submit_article",
                  access_token, NoHeader)

\* _handle_auth_error(401/403): clear the token and the header, then login()
_handle_auth_error(t) ==
    /\ access_token' = NoToken
    /\ authorization' = [authorization EXCEPT ![t] = NoHeader]
    /\ EnterLogin(t, IF pc[t] = "upload" THEN "upload_files" ELSE "submit_article",
                  NoToken, NoHeader)

\* history: an upload or article request was answered 401/403
AuthErrorReceived(t) ==
    /\ authErrors' = [authErrors EXCEPT ![t] = Sat(@ + 1)]
    /\ expired' = [expired EXCEPT ![t] = TRUE]

(***************************************************************************)
(* upload_files(): one upload request (one attempt of one batch) per step. *)
(***************************************************************************)
\* history: an upload request for batch b is sent
SendUpload(t, b) ==
    /\ lastSentBatch' = [lastSentBatch EXCEPT ![t] = b]
    /\ resent' = [resent EXCEPT ![t] = @ \/ authBatch[t] = b]

\* history: the k-th upload request of the batch was sent and failed; `secs` is
\* the sleep that followed it (0: none)
UploadFailed(t, kind, secs) ==
    /\ batchSent' = [batchSent EXCEPT ![t] = @ + 1]
    /\ lastFailure' = [lastFailure EXCEPT
                         ![t] = [kind |-> kind, k |-> batchSent[t] + 1, secs |-> secs]]

\* a variant that steps one image too far
NextBatchStartSkipping(i) == i + upload_batch_size + 1

\* `i` of the batch after the one starting at i: range(0, total_images, batch_size)
NextBatchStart(i) == i + upload_batch_size

\* the attempt is answered 200/201 with an accepted code and URLs: `break`
UploadBatchSucceeds(t) ==
    LET i == batchStart[t]
        n == total_images[t]
        urls == all_uploaded_urls[t]
    IN  /\ pc[t] = "upload"
        /\ SendUpload(t, BatchNum(i))
        /\ \E r \in UploadResponses(BatchLen(i, n)) :
             /\ UploadAccepted(r)
             /\ all_uploaded_urls' = [all_uploaded_urls EXCEPT
                                        ![t] = urls \o Repeat(BatchNum(i), r.nurls)]
        /\ uploaded' = [uploaded EXCEPT ![t] = Append(@, current_batch(i, n))]
        /\ IF NextBatchStart(i) < n
             THEN /\ batchStart' = [batchStart EXCEPT ![t] = NextBatchStart(i)]
                  /\ attempt' = [attempt EXCEPT ![t] = 0]
                  /\ NewBatch(t)
                  /\ UNCHANGED <<pc, returned, retUrls>>
             ELSE /\ pc' = [pc EXCEPT ![t] = "idle"]
                  /\ returned' = [returned EXCEPT ![t] = "upload_files"]
                  /\ retUrls' = [retUrls EXCEPT ![t] = all_uploaded_urls'[t]]
                  /\ batchSent' = [batchSent EXCEPT ![t] = @ + 1]
                  /\ UNCHANGED <<batchStart, attempt, lastFailure>>
        /\ UNCHANGED <<jobVars, toolVars, cfgVars, access_token, threads, authorization, loginLocals,
                       total_images, retBool, loginRequests, authErrors, otherFailures,
                       authBatch, expired, exhaustedBatch, articleResponse>>

\* the attempt is answered 401/403 (lines 165-172): re-login
UploadAuthError(t) ==
    /\ pc[t] = "upload"
    /\ (\E r \in UploadResponses(BatchLen(batchStart[t], total_images[t])) :
           ~r.exc /\ IsAuthError(r.status)) = TRUE
    /\ lastSentBatch' = [lastSentBatch EXCEPT ![t] = BatchNum(batchStart[t])]
    /\ authBatch' = [authBatch EXCEPT ![t] = BatchNum(batchStart[t])]
    /\ resent' = [resent EXCEPT ![t] = FALSE]
    /\ AuthErrorReceived(t)
    /\ UploadFailed(t, "auth", 0)
    /\ _handle_auth_error(t)
    /\ UNCHANGED <<jobVars, toolVars, cfgVars, threads, attempt, total_images, batchStart, all_uploaded_urls,
                   returned, retBool, retUrls, loginRequests, otherFailures,
                   exhaustedBatch, articleResponse, uploaded>>

\* the attempt fails otherwise (lines 164, 173-183): back off and go round, or
\* leave the loop by its else branch
UploadAttemptFails(t) ==
    LET i == batchStart[t]
    IN  /\ pc[t] = "upload"
        /\ SendUpload(t, BatchNum(i))
        /\ (\E r \in UploadResponses(BatchLen(i, total_images[t])) :
               ~UploadAccepted(r) /\ (r.exc \/ ~IsAuthError(r.status))) = TRUE
        /\ otherFailures' = [otherFailures EXCEPT ![t] = TRUE]
        /\ UploadFailed(t, "other", IF SleepsAfter(attempt[t])
                                      THEN BackoffSeconds(attempt[t]) ELSE 0)
        /\ IF HasNextAttempt(attempt[t])
             THEN /\ attempt' = [attempt EXCEPT ![t] = @ + 1]
                  /\ UNCHANGED <<pc, returned, retUrls, exhaustedBatch>>
             ELSE /\ pc' = [pc EXCEPT ![t] = "idle"]
                  /\ returned' = [returned EXCEPT ![t] = "upload_files"]
                  /\ retUrls' = [retUrls EXCEPT ![t] = ExhaustedResult(all_uploaded_urls[t])]
                  /\ exhaustedBatch' = [exhaustedBatch EXCEPT ![t] = BatchNum(i)]
                  /\ attempt' = attempt
        /\ UNCHANGED <<jobVars, toolVars, cfgVars, access_token, threads, authorization, loginLocals,
                       total_images, batchStart, all_uploaded_urls, retBool, loginRequests,
                       authErrors, authBatch, expired, articleResponse, uploaded>>

(***************************************************************************)
(* submit_article(): one article request per step.                         *)
(***************************************************************************)
\* the request is accepted (lines 210-224): return True
SubmitSucceeds(t) ==
    /\ pc[t] = "submit"
    /\ \E r \in ArticleResponses : ArticleAccepted(r) /\ articleResponse' = r
    /\ pc' = [pc EXCEPT ![t] = "idle"]
    /\ returned' = [returned EXCEPT ![t] = "submit_article"]
    /\ retBool' = [retBool EXCEPT ![t] = TRUE]
    /\ UNCHANGED <<jobVars, toolVars, cfgVars, access_token, threads, authorization, loginLocals, attempt,
                   total_images, batchStart, all_uploaded_urls, retUrls, loginRequests,
                   authErrors, otherFailures, expired, uploadHist, batchHist>>

\* the request is answered 401/403 (lines 227-234): re-login
SubmitAuthError(t) ==
    /\ pc[t] = "submit"
    /\ \E r \in ArticleResponses : ~r.exc /\ IsAuthError(r.status) /\ articleResponse' = r
    /\ AuthErrorReceived(t)
    /\ _handle_auth_error(t)
    /\ UNCHANGED <<jobVars, toolVars, cfgVars, threads, attempt, total_images, batchStart, all_uploaded_urls,
                   returned, retBool, retUrls, loginRequests, otherFailures, uploadHist,
                   batchHist>>

\* the request fails otherwise (lines 225-226, 235-247)
SubmitAttemptFails(t) ==
    /\ pc[t] = "submit"
    /\ \E r \in ArticleResponses :
         /\ ~ArticleAccepted(r) /\ (r.exc \/ ~IsAuthError(r.status))
         /\ articleResponse' = r
    /\ otherFailures' = [otherFailures EXCEPT ![t] = TRUE]
    /\ IF HasNextAttempt(attempt[t])
         THEN /\ attempt' = [attempt EXCEPT ![t] = @ + 1]
              /\ UNCHANGED <<pc, returned, retBool>>
         ELSE /\ pc' = [pc EXCEPT ![t] = "idle"]
              /\ returned' = [returned EXCEPT ![t] = "submit_article"]
              /\ retBool' = [retBool EXCEPT ![t] = FALSE]
              /\ attempt' = attempt
    /\ UNCHANGED <<jobVars, toolVars, cfgVars, access_token, threads, authorization, loginLocals,
                   total_images, batchStart, all_uploaded_urls, retUrls, loginRequests,
                   authErrors, expired, uploadHist, batchHist>>


(***************************************************************************)
(* The staging directories on disk.                                        *)
(***************************************************************************)
\* os.getpid(): one process runs all the Jobs
Pid == "pid"
DirKinds == {"process", "extract", "final"}
\* os.path.join(temp_dir, f"{kind}_{int(time.time())}_{os.getpid()}")
StagingPath(kind, sec) == <<kind, sec, Pid>>
Paths == {StagingPath(k, sec) : k \in DirKinds, sec \in 0..MaxTime}

\* the files of a staging directory: the marker of _add_cleanup_marker and the
\* Job's content; a file is plain, read-only (removable once chmod-ed) or locked
\* (held open by some process: no call removes it until that process lets go)
FileNames == {".cleanup_marker", "content"}
Attrs == {"plain", "readonly", "locked"}
NoFile == "none"
NoFiles == [f \in FileNames |-> NoFile]
AbsentDir == [exists |-> FALSE, files |-> NoFiles]
EmptyDir == [exists |-> TRUE, files |-> NoFiles]
Dirs == {AbsentDir} \cup [exists : {TRUE}, files : [FileNames -> Attrs \cup {NoFile}]]

HasAttr(dir, a) == \E f \in FileNames : dir.files[f] = a
IsEmpty(dir) == \A f \in FileNames : dir.files[f] = NoFile

\* os.remove(file) without a chmod succeeds: the read-only attribute blocks it
\* on Windows only
PlainRemovable(a, os) == a = "plain" \/ (a = "readonly" /\ os = "posix")

(***************************************************************************)
(* The cleanup strategies.  Each yields the directory it leaves and the    *)
(* value it returns.                                                       *)
(***************************************************************************)
\* the directory as the next call that touches it finds it: the processes
\* holding its files open have let go of them by then, or have not
Observed(dir, released) ==
    IF released
      THEN [dir EXCEPT !.files = [f \in FileNames |->
                                     IF dir.files[f] = "locked" THEN "plain" ELSE dir.files[f]]]
      ELSE dir

\* what the environment decides for one escalation: whether the locks are gone
\* when it starts, the files shutil.rmtree gets to before it fails, whether
\* os.walk raises in the file-by-file pass, and how `rd /s /q` ends
EscalationEnvs ==
    [released : BOOLEAN, partial : SUBSET FileNames, walkRaises : BOOLEAN,
     rd : {"removed", "failed", "raised"}]

\* `except Exception: return False` around the body of a strategy
Caught(r) == IF r.raised THEN [r EXCEPT !.raised = FALSE, !.ok = FALSE] ELSE r

\* shutil.rmtree(dir): raises at the first file it cannot remove, having
\* removed those of `partial` it got to before
RmTree(dir, partial, os) ==
    IF \A f \in FileNames : dir.files[f] = NoFile \/ PlainRemovable(dir.files[f], os)
      THEN [dir |-> AbsentDir, raised |-> FALSE]
      ELSE [dir |-> [dir EXCEPT !.files =
                       [f \in FileNames |->
                           IF f \in partial /\ PlainRemovable(dir.files[f], os)
                             THEN NoFile ELSE dir.files[f]]],
            raised |-> TRUE]

\* _cleanup_direct_rmtree: shutil.rmtree, then `return not os.path.exists(temp_dir)`
_cleanup_direct_rmtree(dir, env, os) ==
    LET r == RmTree(dir, env.partial, os)
    IN  Caught([dir |-> r.dir, ok |-> ~r.dir.exists, raised |-> r.raised])

\* a variant that removes without the chmod
RemoveWithoutChmod(a, os) == IF PlainRemovable(a, os) THEN NoFile ELSE a

\* os.chmod(file_path, 0o777); os.remove(file_path), failures swallowed: on
\* either platform only a file held open stays
ChmodAndRemove(a, os) == IF a = "locked" THEN a ELSE NoFile

\* _cleanup_recursive_delete: chmod and remove every file bottom-up, then rmdir
\* the root, which raises when something is left
_cleanup_recursive_delete(dir, env, os) ==
    LET left == [f \in FileNames |-> ChmodAndRemove(dir.files[f], os)]
    IN  Caught(IF \A f \in FileNames : left[f] = NoFile
                 THEN [dir |-> AbsentDir, ok |-> TRUE, raised |-> FALSE]
                 ELSE [dir |-> [dir EXCEPT !.files = left], ok |-> FALSE, raised |-> TRUE])

\* _cleanup_file_by_file: os.remove on every file, failures swallowed; no rmdir;
\* `return True` unless the walk itself raises
_cleanup_file_by_file(dir, env, os) ==
    Caught(IF env.walkRaises
             THEN [dir |-> dir, ok |-> FALSE, raised |-> TRUE]
             ELSE [dir |-> [dir EXCEPT !.files =
                              [f \in FileNames |->
                                  IF PlainRemovable(dir.files[f], os) THEN NoFile
                                  ELSE dir.files[f]]],
                   ok |-> TRUE, raised |-> FALSE])

\* _cleanup_force_delete: False off Windows; else `cmd /c rd /s /q`, True when it
\* exits with 0
_cleanup_force_delete(dir, env, os) ==
    Caught(IF os # "nt"
             THEN [dir |-> dir, ok |-> FALSE, raised |-> FALSE]
           ELSE IF env.rd = "raised"
             THEN [dir |-> dir, ok |-> FALSE, raised |-> TRUE]
           ELSE IF env.rd = "removed" /\ ~HasAttr(dir, "locked")
             THEN [dir |-> AbsentDir, ok |-> TRUE, raised |-> FALSE]
           ELSE [dir |-> dir, ok |-> FALSE, raised |-> FALSE])

\* `try: if method(temp_dir): return True / except Exception: continue`
MethodSucceeded(r) == ~r.raised /\ r.ok

\* _try_cleanup_directory: the methods in order, until one returns True
\* (tried: the numbers of the methods that were invoked)
_try_cleanup_directory(dir, env, os) ==
    LET r1 == _cleanup_direct_rmtree(Observed(dir, env.released), env, os)
        r2 == _cleanup_recursive_delete(r1.dir, env, os)
        r3 == _cleanup_file_by_file(r2.dir, env, os)
        r4 == _cleanup_force_delete(r3.dir, env, os)
    IN  IF MethodSucceeded(r1)
          THEN [dir |-> r1.dir, ok |-> TRUE, raised |-> FALSE, tried |-> <<1>>]
        ELSE IF MethodSucceeded(r2)
          THEN [dir |-> r2.dir, ok |-> TRUE, raised |-> FALSE, tried |-> <<1, 2>>]
        ELSE IF MethodSucceeded(r3)
          THEN [dir |-> r3.dir, ok |-> TRUE, raised |-> FALSE, tried |-> <<1, 2, 3>>]
        ELSE [dir |-> r4.dir, ok |-> MethodSucceeded(r4), raised |-> FALSE,
              tried |-> <<1, 2, 3, 4>>]

\* os.name
OsNames == {"nt", "posix"}

\* everything one call of _try_cleanup_directory may do to a directory, by
\* platform and by the directory it is given
EscalationTable ==
    {<<os, dir, _try_cleanup_directory(dir, env, os)>> :
        os \in OsNames, dir \in Dirs, env \in EscalationEnvs}

\* the outcomes _try_cleanup_directory may have for dir on platform os
Escalations(os, dir) ==
    {t[3] : t \in {u \in EscalationTable : u[1] = os /\ u[2] = dir}}

\* history: _try_cleanup_directory was applied to path p by `who`
Escalation(p, before, r, who) ==
    [applied |-> TRUE, path |-> p, before |-> before, after |-> r.dir, ok |-> r.ok,
     tried |-> r.tried, by |-> who]
NoEscalation ==
    [applied |-> FALSE, path |-> StagingPath("process", 0), before |-> AbsentDir,
     after |-> AbsentDir, ok |-> FALSE, tried |-> <<>>, by |-> "none"]

(***************************************************************************)
(* FileProcessor.__init__: nothing is tracked, no Job has run.             *)
(***************************************************************************)
InitProcessor ==
    /\ now = 0
    /\ fs = [p \in Paths |-> AbsentDir]
    /\ bg = <<>>
    /\ temp_dirs_to_cleanup = <<>>
    /\ jpc = "idle"
    /\ entry = "none"
    /\ inputKind = "folder"
    /\ inputValid = TRUE
    /\ pending = FALSE
    /\ jobResult = "none"
    /\ todo = {}
    /\ cleaned = {}
    /\ failed = {}
    /\ skipped = {}
    /\ jobNo = 0
    /\ allocatedBy = [p \in Paths |-> {}]
    /\ jobDirs = {}
    /\ cleanupRuns = 0
    /\ escalated = {}
    /\ handed = {}
    /\ esc = NoEscalation
    /\ stagesRun = <<>>
    /\ stageFailed = "none"

\* the configuration file as shipped (config.py): login, upload and publish on
DefaultFlags ==
    /\ skip_login = FALSE
    /\ enable_upload = TRUE
    /\ enable_publish = TRUE
    /\ os_name = "nt"

(***************************************************************************)
(* CompressionHandler: no call is in progress.                             *)
(***************************************************************************)
\* a password or a file name, as its dot-separated components ("a.b" is
\* <<"a", "b">>, the empty string is <<"">>)
EmptyString == <<"">>
\* the archive is not encrypted
NoPassword == <<"<none>">>

\* no invocation of 7z yet
NoOutcome == [kind |-> "none", left |-> NoFile]

InitExtract ==
    /\ xpc = "idle"
    /\ passwords = <<>>
    /\ original_name = EmptyString
    /\ secret = NoPassword
    /\ all_passwords = <<>>
    /\ candidate = 0
    /\ dest_dir = NoFile
    /\ extractResult = "none"
    /\ attempts = <<>>
    /\ outcome = NoOutcome

\* no run of 7z yet
NoRun == [kind |-> "none", file |-> NoFile]

\* no path yet
NoPath == <<>>

\* no call of create_archive yet
ArchiveIdle ==
    /\ zip_name = NoPath
    /\ inner_7z_path = NoPath
    /\ apc = "idle"
    /\ format_type = "7z"
    /\ inner_7z_file = NoFile
    /\ output_file = NoFile
    /\ archiveResult = "none"
    /\ innerOutcome = NoRun
    /\ wrapOutcome = NoRun

InitArchive ==
    /\ safe_title = <<"a">>
    /\ ArchiveIdle

\* the copies of the directory that _rename_files is run on
Copies == {"A", "B"}

InitRename ==
    /\ tree = [c \in Copies |-> {}]
    /\ rpc = "idle"
    /\ runNo = 1
    /\ all_files = <<>>
    /\ img_count = 1
    /\ video_count = 1
    /\ sortedAtStart = <<>>
    /\ renamed = {}
    /\ moveFailed = FALSE

InitKey ==
    /\ text1 = <<>>
    /\ text2 = <<>>
    /\ compared = "none"
    /\ comparedApi = "none"

InitClean ==
    /\ fileName = <<>>
    /\ cleanOnce = <<>>
    /\ cleanTwice = <<>>
    /\ usedFallback = FALSE

InitMedia ==
    /\ mpc = "idle"
    /\ output_format = "webp"
    /\ files_to_process = <<>>
    /\ skipped_gifs = {}
    /\ all_images = {}
    /\ encoderInputs = {}
    /\ reencoded = {}

InitFlatten ==
    /\ fpc = "idle"
    /\ temp_dir = {}
    /\ processed_dir = {}
    /\ toMove = {}
    /\ extractedFiles = {}

InitStages ==
    /\ spc = "idle"
    /\ sKind = "folder"
    /\ delete_source_files = FALSE
    /\ pendingResult = FALSE
    /\ sResult = "none"
    /\ staged = "none"
    /\ archiveHolds = "none"
    /\ source = "intact"
    /\ stageLog = <<>>
    /\ failedStage = "none"

InitHandles ==
    /\ upc = "idle"
    /\ uImages = 0
    /\ uStart = 0
    /\ uAttempt = 0
    /\ batchFiles = {}
    /\ openHandles = {}
    /\ uResult = "none"

InitLate ==
    /\ InitFlatten
    /\ InitStages
    /\ InitHandles

InitTools ==
    /\ InitExtract
    /\ InitArchive
    /\ InitRename
    /\ InitKey
    /\ InitClean
    /\ InitMedia
    /\ InitLate

(***************************************************************************)
(* The upload session driven by one thread: any sequence of calls of       *)
(* login, ensure_login, upload_files and submit_article.                   *)
(***************************************************************************)
InitConfig ==
    /\ max_retries \in 1..MaxRetriesBound
    /\ upload_batch_size \in 1..MaxBatchSize
    /\ access_token \in {NoToken, "tokA"}

Init ==
    /\ InitConfig
    /\ threads = {"T1"}
    /\ InitHandlers
    /\ DefaultFlags
    /\ InitProcessor
    /\ InitTools

Next ==
    \E t \in Threads :
        \/ CallLogin(t)
        \/ ensure_login(t)
        \/ \E n \in 0..MaxImages : CallUploadFiles(t, n)
        \/ CallSubmitArticle(t)
        \/ LoginSucceeds(t)
        \/ LoginAttemptFails(t)
        \/ UploadBatchSucceeds(t)
        \/ UploadAuthError(t)
        \/ UploadAttemptFails(t)
        \/ SubmitSucceeds(t)
        \/ SubmitAuthError(t)
        \/ SubmitAttemptFails(t)

Spec == Init /\ [][Next]_vars

(***************************************************************************)
(* Properties of the upload session.                                       *)
(***************************************************************************)
\* the sleeps of a login call whose first m requests failed: 5, 10, ..., 5*m
LinearBackoff(m) == [k \in 1..m |-> 5 * k]

\* C1: when upload_files has returned and exactly one upload request was answered
\* 401/403 while every other login and upload request succeeded, exactly one login
\* request was sent, the batch that got the 401/403 was sent again, and the result
\* is the non-empty URL list of all batches (for every max_retries >= 1).
C1_SingleAuthErrorIsRecovered ==
    \A t \in Threads :
        (returned[t] = "upload_files" /\ authErrors[t] = 1 /\ ~otherFailures[t])
        => /\ loginRequests[t] = 1
           /\ resent[t]
           /\ retUrls[t] # <<>>
           /\ {retUrls[t][k] : k \in 1..Len(retUrls[t])} = 1..TotalBatches(total_images[t])

\* C2: while an upload or article request has been answered 401/403 and no login
\* request has succeeded since, the cached token and the Authorization header are
\* cleared and either login is running for the operation, with requests left, or
\* the operation has ended with failure right after the last failed login request;
\* in neither case is the thread about to send an upload or article request.
C2_AuthErrorForcesRelogin ==
    \A t \in Threads :
        expired[t]
        => /\ access_token = NoToken
           /\ authorization[t] = NoHeader
           /\ loginCaller[t] \in {"upload_files", "submit_article"}
           /\ \/ pc[t] = "login" /\ loginSent[t] < max_retries
              \/ /\ pc[t] = "idle"
                 /\ returned[t] = loginCaller[t]
                 /\ loginFailed[t] = max_retries
                 /\ returned[t] = "upload_files" => retUrls[t] = <<>>
                 /\ returned[t] = "submit_article" => retBool[t] = FALSE

\* C2 witness: a re-login failed and upload_files ended with [] although URLs had
\* been collected and the batch had attempts left.
C2_Witness ==
    \E t \in Threads :
        /\ expired[t] /\ pc[t] = "idle" /\ returned[t] = "upload_files"
        /\ all_uploaded_urls[t] # <<>>
        /\ attempt[t] + 1 < max_retries

\* C3: when a batch has used up all its attempts, upload_files returns the empty
\* list, whatever it had collected, and the last upload request it sent is one
\* for that batch (no later batch is sent).
C3_NoPartialResult ==
    \A t \in Threads :
        exhaustedBatch[t] # 0
        => /\ pc[t] = "idle" /\ returned[t] = "upload_files"
           /\ retUrls[t] = <<>>
           /\ lastSentBatch[t] = exhaustedBatch[t]

\* C3 witness: the second of three batches used up its attempts after the first
\* batch had succeeded.
C3_Witness ==
    \E t \in Threads :
        /\ exhaustedBatch[t] = 2
        /\ TotalBatches(total_images[t]) = 3
        /\ all_uploaded_urls[t] # <<>>
        /\ retUrls[t] = <<>>

\* C4: a login call sends at most max_retries requests; while it runs, every
\* request so far failed and it slept 5*k seconds after the k-th of them; it
\* returns True right at its first accepted request, and False exactly when
\* max_retries requests failed, with no sleep after the last.
C4_LoginRetriesWithLinearBackoff ==
    \A t \in Threads :
        /\ loginSent[t] <= max_retries
        /\ pc[t] = "login"
             => /\ loginFailed[t] = loginSent[t] /\ loginSent[t] < max_retries
                /\ slept[t] = LinearBackoff(loginFailed[t])
        /\ (returned[t] = "login" /\ retBool[t])
             => /\ loginSent[t] = loginFailed[t] + 1
                /\ slept[t] = LinearBackoff(loginFailed[t])
        /\ (returned[t] = "login" /\ ~retBool[t])
             => /\ loginFailed[t] = max_retries /\ loginSent[t] = max_retries
                /\ slept[t] = LinearBackoff(max_retries - 1)
        /\ returned[t] = "login" => (retBool[t] <=> loginFailed[t] < loginSent[t])

\* C4 witness: a login call that failed three times, having slept 5 and 10 seconds.
C4_Witness ==
    \E t \in Threads :
        /\ returned[t] = "login" /\ ~retBool[t]
        /\ loginSent[t] = 3
        /\ slept[t] = <<5, 10>>

\* C24: a call of ensure_login while a non-empty token is cached returns True in
\* that very step, with the token as it was and no login entered (no request is
\* sent); a call while no token is cached enters login, which has sent nothing yet.
C24_CachedTokenIsTrusted ==
    [][\A t \in Threads :
         ensure_login(t)
         => IF access_token # NoToken
              THEN /\ pc'[t] = "idle"
                   /\ returned'[t] = "ensure_login" /\ retBool'[t]
                   /\ access_token' = access_token
                   /\ loginSent'[t] = 0 /\ loginRequests'[t] = 0
              ELSE /\ pc'[t] = "login" /\ loginCaller'[t] = "ensure_login"
                   /\ returned'[t] = "none"
                   /\ loginSent'[t] = 0]_vars

\* C24 witness: ensure_login has returned True on a cached token without a request.
C24_Witness ==
    \E t \in Threads :
        /\ pc[t] = "idle" /\ returned[t] = "ensure_login" /\ retBool[t]
        /\ loginRequests[t] = 0
        /\ access_token = "tokA"
        /\ authorization[t] = Bearer("tokA")

\* the condition under which an article answer is to count as a success: HTTP
\* 200/201 and an accepted application code or the success flag
AnswerSaysPublished(r) ==
    /\ ~r.exc
    /\ r.status \in {200, 201}
    /\ (r.code \in {0, 200, 201} \/ r.success)

\* C23: an attempt of submit_article returns True exactly when the answer has
\* HTTP status 200/201 and an application code in {0, 200, 201} or a true
\* data.success flag, either of the two being enough.
C23_ArticleAcceptedByCodeOrFlag ==
    [][\A t \in Threads :
         pc[t] = "submit"
         => ((pc'[t] = "idle" /\ returned'[t] = "submit_article" /\ retBool'[t])
             <=> AnswerSaysPublished(articleResponse'))]_vars

\* the step is the handling of a 401/403 by thread t
AuthHandlingStep(t) == pc[t] \in {"upload", "submit"} /\ pc'[t] = "login"

\* the step is an accepted login request of thread t
LoginSuccessStep(t) == pc[t] = "login" /\ pc'[t] # "login" /\ loginFailed'[t] < loginSent'[t]

C38_HeaderCarriesTheToken ==
    \A t \in threads :
        /\ authorization[t] # NoHeader
             => (access_token # NoToken /\ authorization[t] = Bearer(access_token))
        /\ (\/ (pc[t] # "login" /\ loginFailed[t] < loginSent[t])
            \/ (pc[t] = "idle" /\ returned[t] \in {"login", "ensure_login"} /\ retBool[t]))
             => (access_token # NoToken /\ authorization[t] = Bearer(access_token))

\* C38 witness: an upload request was answered 401/403, the re-login was
\* accepted with the token tokB, and the batch was sent again under it.
C38_Witness ==
    \E t \in threads :
        /\ pc[t] = "upload" /\ loginCaller[t] = "upload_files"
        /\ loginFailed[t] < loginSent[t]
        /\ resent[t]
        /\ access_token = "tokB" /\ authorization[t] = Bearer("tokB")

\* the latest failed upload request of the batch is the latest request of the
\* batch, and no login is running for it
NothingSentSince(t) == batchSent[t] = lastFailure[t].k /\ pc[t] # "login" /\ ~expired[t]

RECURSIVE Flatten(_)
Flatten(batches) == IF batches = <<>> THEN <<>>
                    ELSE Head(batches) \o Flatten(Tail(batches))

\* upload_files has returned the URLs of all its batches
UploadComplete(t) == pc[t] = "idle" /\ returned[t] = "upload_files" /\ retUrls[t] # <<>>

\* C22: the batches upload_files has got through are consecutive slices of the
\* sorted image list, each of upload_batch_size images but for the last of the
\* call; together they hold the images 1..i in order, each once (all of them when
\* the call returns its URLs); the batch being sent is the one after those that
\* have succeeded; and the URLs come in the order of the batches, at least one
\* for each batch.
C22_ConsecutiveBatchesInOrder ==
    \A t \in threads :
        LET done == uploaded[t]
            n == total_images[t]
            urls == all_uploaded_urls[t]
        IN  /\ Flatten(done) = [k \in 1..Len(Flatten(done)) |-> k]
            /\ \A b \in 1..Len(done) :
                  \/ Len(done[b]) = upload_batch_size
                  \/ /\ b = Len(done) /\ b = TotalBatches(n)
                     /\ Len(done[b]) \in 1..upload_batch_size
            /\ pc[t] = "upload" => Len(Flatten(done)) = batchStart[t]
            /\ lastSentBatch[t] <= Len(done) + 1
            /\ lastSentBatch[t] # 0 => lastSentBatch[t] >= Len(done)
            /\ \A j, k \in 1..Len(urls) : j < k => urls[j] <= urls[k]
            /\ {urls[k] : k \in 1..Len(urls)} = 1..Len(done)
            /\ UploadComplete(t)
                 => /\ Len(Flatten(done)) = n
                    /\ Len(done) = TotalBatches(n)
                    /\ retUrls[t] = urls

\* C22 witness: three images in batches of two have been uploaded, the second
\* batch holding the third image alone.
C22_Witness ==
    \E t \in threads :
        /\ UploadComplete(t)
        /\ upload_batch_size = 2
        /\ uploaded[t] = <<(<<1, 2>>), (<<3>>)>>
        /\ retUrls[t] = <<1, 1, 2>>

(***************************************************************************)
(* Two Jobs on two threads, each with its own APIHandler, sharing the      *)
(* Config and its access_token; both upload.  The code takes no lock.      *)
(***************************************************************************)
InitConc ==
    /\ max_retries \in 1..ConcRetries
    /\ upload_batch_size = 1
    /\ access_token \in {NoToken, "tokA"}
    /\ threads = Threads
    /\ InitHandlers
    /\ DefaultFlags
    /\ InitProcessor
    /\ InitTools

NextConc ==
    \E t \in Threads :
        \/ \E n \in 1..ConcImages : CallUploadFiles(t, n)
        \/ LoginSucceeds(t)
        \/ LoginAttemptFails(t)
        \/ UploadBatchSucceeds(t)
        \/ UploadAuthError(t)
        \/ UploadAttemptFails(t)

SpecConc == InitConc /\ [][NextConc]_vars

\* C5: the re-logins of two Jobs sharing the credential exclude each other (at most
\* one thread is inside login at any moment), and between a Job's successful
\* re-login and the request it retries no other Job clears the token.
C5_ReloginsAreMutuallyExclusive ==
    /\ Cardinality({t \in Threads : pc[t] = "login"}) <= 1
    /\ \A t \in Threads :
         (pc[t] = "upload" /\ authBatch[t] # 0 /\ ~resent[t] /\ ~expired[t])
         => access_token # NoToken

(***************************************************************************)
(* The Jobs of the processing thread: gui.process_files calls process_file *)
(* for one dropped path after the other, on one FileProcessor.             *)
(***************************************************************************)
\* the processing thread and its APIHandler
Worker == "T1"
\* time.sleep(2) of the background cleanup thread
BgSleep == 2

ResultOf(b) == IF b THEN "True" ELSE "False"

\* the more resistant of two file attributes
Resistance(a) == CASE a = NoFile -> 0 [] a = "plain" -> 1 [] a = "readonly" -> 2
                   [] a = "locked" -> 3
Worst(a, b) == IF Resistance(a) >= Resistance(b) THEN a ELSE b

\* os.makedirs(dir, exist_ok=True)
MakeDirs(dir) == [dir EXCEPT !.exists = TRUE]

\* _add_cleanup_marker: writes the marker, any failure swallowed
_add_cleanup_marker(dir) ==
    IF dir.files[".cleanup_marker"] \in {NoFile, "plain"}
      THEN [dir EXCEPT !.files[".cleanup_marker"] = "plain"]
      ELSE dir

\* int(time.time()) when a staging directory is named: the clock never runs
\* backwards; MaxTime is the last second in which a directory is allocated
ClockReadings == now..MaxTime
\* the seconds after MaxTime are not told apart
Clock(sec) == Min(sec, MaxTime + 1)

\* makedirs + append + marker (lines 86-89, 192-195, 314-318)
Allocate(p) ==
    /\ temp_dirs_to_cleanup' = Append(temp_dirs_to_cleanup, p)
    /\ allocatedBy' = [allocatedBy EXCEPT ![p] = @ \cup {jobNo}]
    /\ jobDirs' = jobDirs \cup {p}

jobLocals == <<entry, inputKind, inputValid>>
cleanupLocals == <<todo, cleaned, failed, skipped>>
cleanupHist == <<cleanupRuns, escalated, handed, esc>>
sessionVars == <<cfgVars, access_token, handlerVars, histVars, auditVars>>

\* a call starts: nothing counted, nothing recorded
ResetCall ==
    /\ pending' = FALSE
    /\ jobResult' = "none"
    /\ todo' = {}
    /\ cleaned' = {}
    /\ failed' = {}
    /\ skipped' = {}
    /\ jobDirs' = {}
    /\ cleanupRuns' = 0
    /\ escalated' = {}
    /\ handed' = {}
    /\ esc' = NoEscalation
    /\ stagesRun' = <<>>
    /\ stageFailed' = "none"

\* the call returns (or raises): its arguments and locals are gone
Return(result) ==
    /\ jpc' = "idle"
    /\ jobResult' = result
    /\ inputKind' = "folder"
    /\ inputValid' = TRUE
    /\ pending' = FALSE

\* gui.process_files: process_file(file_path) on the next dropped path
StartJob(kind, valid) ==
    /\ jpc = "idle"
    /\ pc[Worker] = "idle"
    /\ jobNo < MaxJobs
    /\ jobNo' = jobNo + 1
    /\ entry' = "process_file"
    /\ inputKind' = kind
    /\ inputValid' = valid
    /\ jpc' = "process_file"
    /\ ResetCall
    /\ NoResult(Worker)
    /\ ResetLoginLocals(Worker)
    /\ ResetHistory(Worker)
    /\ UNCHANGED <<cfgVars, access_token, threads, authorization, pc, attempt, total_images,
                   batchStart, all_uploaded_urls, batchHist, flagVars, toolVars, worldVars,
                   temp_dirs_to_cleanup, allocatedBy>>

\* process_file line 59: self.api_handler.ensure_login()
ProcessFileEnsureLogin ==
    /\ jpc = "process_file"
    /\ ~skip_login
    /\ returned[Worker] = "none"
    /\ ensure_login(Worker)

\* process_file lines 55-61: go on when login is skipped or succeeded, return
\* False when it failed
ProcessFileAfterLogin ==
    /\ jpc = "process_file"
    /\ IF skip_login
         THEN /\ jpc' = "validate"
              /\ UNCHANGED <<jobResult, inputKind, inputValid, pending>>
         ELSE /\ pc[Worker] = "idle"
              /\ returned[Worker] = "ensure_login"
              /\ IF retBool[Worker]
                   THEN /\ jpc' = "fetch_categories"
                        /\ UNCHANGED <<jobResult, inputKind, inputValid, pending>>
                   ELSE Return("False")
    /\ UNCHANGED <<sessionVars, flagVars, toolVars, worldVars, temp_dirs_to_cleanup, entry,
                   cleanupLocals, jobHist, stageHist>>

\* process_file line 64: APIHandler has no fetch_categories; the AttributeError
\* leaves process_file
FetchCategories ==
    /\ jpc = "fetch_categories"
    /\ Return("raised")
    /\ UNCHANGED <<sessionVars, flagVars, toolVars, worldVars, temp_dirs_to_cleanup, entry,
                   cleanupLocals, jobHist, stageHist>>

\* process_folder lines 77-79 / process_archive lines 184-186: an input that
\* fails the validation returns False before the try
Validate ==
    /\ jpc = "validate"
    /\ IF inputValid
         THEN /\ jpc' = "alloc"
              /\ UNCHANGED <<jobResult, inputKind, inputValid, pending>>
         ELSE Return("False")
    /\ UNCHANGED <<sessionVars, flagVars, toolVars, worldVars, temp_dirs_to_cleanup, entry,
                   cleanupLocals, jobHist, stageHist>>

\* process_folder lines 86-89 / process_archive lines 192-195: the staging
\* directory named after the clock second and the pid
AllocStaging ==
    /\ jpc = "alloc"
    /\ \E sec \in ClockReadings :
         LET p == StagingPath(IF inputKind = "folder" THEN "process" ELSE "extract", sec)
         IN  /\ now' = sec
             /\ fs' = [fs EXCEPT ![p] = _add_cleanup_marker(MakeDirs(@))]
             /\ Allocate(p)
    /\ jpc' = "fill"
    /\ UNCHANGED <<sessionVars, flagVars, toolVars, bg, jobLocals, pending, jobResult, cleanupLocals,
                   jobNo, cleanupHist, stageHist>>

\* the directory a step of the Job works in: the one it appended last
Current == temp_dirs_to_cleanup[Len(temp_dirs_to_cleanup)]

\* a variant in which the pipeline goes on after a failed stage
StageGoesOn ==
    /\ pending' = pending
    /\ jpc' = "finish"

\* a stage returned False or raised inside the try: the finally runs next
StageFails ==
    /\ pending' = FALSE
    /\ jpc' = "cleanup"

\* history: the stage `name` has run and succeeded or failed
RunStage(name, ok) ==
    /\ stagesRun' = Append(stagesRun, name)
    /\ stageFailed' = IF ok THEN stageFailed ELSE name

\* process_folder line 97: shutil.copytree into the staging directory; it raises
\* when it cannot read the source or the target name exists
CopyTree ==
    /\ jpc = "fill" /\ inputKind = "folder"
    /\ \E ok \in BOOLEAN, a \in Attrs :
         IF ok
           THEN /\ fs' = [fs EXCEPT ![Current] =
                             [MakeDirs(@) EXCEPT !.files["content"] = Worst(@, a)]]
                /\ jpc' = "package"
                /\ UNCHANGED pending
                /\ RunStage("staging", TRUE)
           ELSE /\ fs' = fs
                /\ StageFails
                /\ RunStage("staging", FALSE)
    /\ UNCHANGED <<sessionVars, flagVars, toolVars, now, bg, temp_dirs_to_cleanup, jobLocals, jobResult,
                   cleanupLocals, jobHist>>

\* compression_handler.extract_file lines 76-79 and on: the target is removed
\* and made again (the rmtree is not guarded), then 7z fills it or fails
ExtractFile ==
    /\ jpc = "fill" /\ inputKind = "archive"
    /\ \E released \in BOOLEAN, partial \in SUBSET FileNames, ok \in BOOLEAN, a \in Attrs :
         LET r == RmTree(Observed(fs[Current], released), partial, os_name)
         IN  IF fs[Current].exists /\ r.raised
               THEN /\ fs' = [fs EXCEPT ![Current] = r.dir]
                    /\ StageFails
                    /\ RunStage("extraction", FALSE)
             ELSE IF ok
               THEN /\ fs' = [fs EXCEPT ![Current] =
                                 [EmptyDir EXCEPT !.files["content"] = a]]
                    /\ jpc' = "stage"
                    /\ UNCHANGED pending
                    /\ RunStage("extraction", TRUE)
               ELSE /\ fs' = [fs EXCEPT ![Current] = EmptyDir]
                    /\ StageFails
                    /\ RunStage("extraction", FALSE)
    /\ UNCHANGED <<sessionVars, flagVars, toolVars, now, bg, temp_dirs_to_cleanup, jobLocals, jobResult,
                   cleanupLocals, jobHist>>

\* _process_extracted_files (lines 300-346): None when the extract directory is
\* gone or empty; else the final directory is allocated and the content moved
\* into it (a file held open cannot be moved: shutil.move raises)
ProcessExtractedFiles ==
    /\ jpc = "stage"
    /\ LET src == Current
       IN  IF ~fs[src].exists \/ IsEmpty(fs[src])
             THEN /\ StageFails
                  /\ RunStage("staging", FALSE)
                  /\ UNCHANGED <<now, fs, temp_dirs_to_cleanup, allocatedBy, jobDirs>>
             ELSE \E sec \in ClockReadings, released \in BOOLEAN :
                    LET final == StagingPath("final", sec)
                        made == _add_cleanup_marker(MakeDirs(fs[final]))
                        content == Observed(fs[src], released).files["content"]
                    IN  /\ now' = sec
                        /\ Allocate(final)
                        /\ IF content = "locked"
                             THEN /\ fs' = [fs EXCEPT ![final] = made]
                                  /\ StageFails
                                  /\ RunStage("staging", FALSE)
                             ELSE /\ fs' = [fs EXCEPT
                                             ![final] = [made EXCEPT
                                                 !.files["content"] = Worst(@, content)],
                                             ![src] = [@ EXCEPT !.files["content"] = NoFile]]
                                  /\ jpc' = "package"
                                  /\ UNCHANGED pending
                                  /\ RunStage("staging", TRUE)
    /\ UNCHANGED <<sessionVars, flagVars, toolVars, bg, jobLocals, jobResult, cleanupLocals, jobNo,
                   cleanupHist>>

\* create_archive (lines 122-128 / 229-235): False ends the Job with False
CreateArchive ==
    /\ jpc = "package"
    /\ \E ok \in BOOLEAN :
         IF ok THEN jpc' = "finish" /\ UNCHANGED pending /\ RunStage("packaging", TRUE)
               ELSE StageFails /\ RunStage("packaging", FALSE)
    /\ UNCHANGED <<sessionVars, flagVars, toolVars, worldVars, temp_dirs_to_cleanup, jobLocals, jobResult,
                   cleanupLocals, jobHist>>

\* lines 132-172 / 239-291: the images are re-encoded in place; login was
\* skipped (a Job that logged in has left at fetch_categories), so no API
\* stage runs; the images are saved or dropped; return True
FinishPipeline ==
    /\ jpc = "finish"
    /\ skip_login
    /\ pending' = TRUE
    /\ jpc' = "cleanup"
    /\ RunStage("images", TRUE)
    /\ UNCHANGED <<sessionVars, flagVars, toolVars, worldVars, temp_dirs_to_cleanup, jobLocals, jobResult,
                   cleanupLocals, jobHist>>

(***************************************************************************)
(* cleanup_temp_directories, one directory of its loop per step.           *)
(***************************************************************************)
\* a variant that visits the first tracked directory only
FirstDirOnly(list) == IF list = <<>> THEN {} ELSE {list[1]}

\* unique_dirs = list(set(self.temp_dirs_to_cleanup))
UniqueDirs(list) == {list[i] : i \in 1..Len(list)}

\* a variant that keeps the tracked list
KeptList(list) == list

\* self.temp_dirs_to_cleanup.clear()
ClearedList(list) == <<>>

\* cleanup_temp_directories called by a caller other than the pipeline
CallCleanup ==
    /\ jpc = "idle"
    /\ entry' = "cleanup_temp_directories"
    /\ jpc' = "cleanup"
    /\ ResetCall
    /\ UNCHANGED <<sessionVars, flagVars, toolVars, worldVars, temp_dirs_to_cleanup, inputKind, inputValid,
                   jobNo, allocatedBy>>

\* lines 494-502: the counters start at zero, the list is deduplicated
CleanupBegin ==
    /\ jpc = "cleanup"
    /\ cleanupRuns' = cleanupRuns + 1
    /\ todo' = UniqueDirs(temp_dirs_to_cleanup)
    /\ cleaned' = {}
    /\ failed' = {}
    /\ skipped' = {}
    /\ jpc' = "cleanup_loop"
    /\ UNCHANGED <<sessionVars, flagVars, toolVars, worldVars, temp_dirs_to_cleanup, jobLocals, pending,
                   jobResult, jobNo, allocatedBy, jobDirs, escalated, handed, esc, stageHist>>

\* lines 504-518: a missing directory is skipped, any other goes through the
\* escalation and is counted by what _try_cleanup_directory returns
CleanupDir(p) ==
    /\ jpc = "cleanup_loop"
    /\ p \in todo
    /\ todo' = todo \ {p}
    /\ IF ~fs[p].exists
         THEN /\ skipped' = skipped \cup {p}
              /\ esc' = NoEscalation
              /\ UNCHANGED <<fs, cleaned, failed, escalated>>
         ELSE \E r \in Escalations(os_name, fs[p]) :
                    /\ fs' = [fs EXCEPT ![p] = r.dir]
                    /\ esc' = Escalation(p, fs[p], r, "cleanup")
                    /\ escalated' = escalated \cup {p}
                    /\ cleaned' = IF r.ok THEN cleaned \cup {p} ELSE cleaned
                    /\ failed' = IF r.ok THEN failed ELSE failed \cup {p}
                    /\ UNCHANGED skipped
    /\ UNCHANGED <<sessionVars, flagVars, toolVars, now, bg, temp_dirs_to_cleanup, jpc, jobLocals, pending,
                   jobResult, jobNo, allocatedBy, jobDirs, cleanupRuns, handed, stageHist>>

\* lines 520-530: with a failure the background thread gets unique_dirs and
\* will sleep BgSleep seconds from now on; the list is cleared; the caller gets
\* its result (the pipeline's pending return value, or None)
CleanupEnd ==
    /\ jpc = "cleanup_loop"
    /\ todo = {}
    /\ LET unique_dirs == UniqueDirs(temp_dirs_to_cleanup)
       IN  IF failed # {}
             THEN /\ bg' = Append(bg, [left |-> unique_dirs,
                                        wake |-> Clock(now + BgSleep)])
                  /\ handed' = unique_dirs
             ELSE UNCHANGED <<bg, handed>>
    /\ temp_dirs_to_cleanup' = ClearedList(temp_dirs_to_cleanup)
    /\ Return(IF entry = "process_file" THEN ResultOf(pending) ELSE "None")
    /\ esc' = NoEscalation
    /\ stagesRun' = <<>>
    /\ stageFailed' = "none"
    /\ UNCHANGED <<sessionVars, flagVars, toolVars, now, fs, entry, cleanupLocals, jobNo,
                   allocatedBy, jobDirs, cleanupRuns, escalated>>

\* the sequence without its i-th element
Without(seq, i) == SubSeq(seq, 1, i - 1) \o SubSeq(seq, i + 1, Len(seq))

\* the directories one escalation may leave in place of dir
EscalationOutcomes(dir) == {r.dir : r \in Escalations(os_name, dir)}

\* a variant in which the thread stays scheduled and runs again
ThreadRunsAgain(list, i) == list

\* background_cleanup returns at line 641 and the thread ends: nothing starts
\* another one
ThreadEnds(list, i) == Without(list, i)

\* background_cleanup (lines 628-641): after its sleep (the clock is past the
\* thread's wake-up second by then) the thread escalates every directory of
\* its list that exists, and ends
BackgroundCleanup(i) ==
    /\ i \in 1..Len(bg)
    /\ now' = Max(now, bg[i].wake)
    /\ bg' = ThreadEnds(bg, i)
    /\ LET there == {p \in bg[i].left : fs[p].exists}
           outcomes == [p \in there |-> EscalationOutcomes(fs[p])]
       IN  \E after \in [there -> UNION {outcomes[p] : p \in there}] :
              /\ \A p \in there : after[p] \in outcomes[p]
              /\ fs' = [p \in Paths |-> IF p \in there THEN after[p] ELSE fs[p]]
    /\ UNCHANGED <<sessionVars, flagVars, toolVars, procVars, jobHist, stageHist>>

InitJob ==
    /\ max_retries = MaxRetriesBound
    /\ upload_batch_size = 1
    /\ access_token = NoToken
    /\ threads = {Worker}
    /\ InitHandlers
    /\ skip_login \in BOOLEAN
    /\ enable_upload = TRUE
    /\ enable_publish = TRUE
    /\ os_name \in OsNames
    /\ InitProcessor
    /\ InitTools

NextJob ==
    \/ \E kind \in {"folder", "archive"}, valid \in BOOLEAN : StartJob(kind, valid)
    \/ ProcessFileEnsureLogin
    \/ LoginSucceeds(Worker)
    \/ LoginAttemptFails(Worker)
    \/ ProcessFileAfterLogin
    \/ FetchCategories
    \/ Validate
    \/ AllocStaging
    \/ CopyTree
    \/ ExtractFile
    \/ ProcessExtractedFiles
    \/ CreateArchive
    \/ FinishPipeline
    \/ CallCleanup
    \/ CleanupBegin
    \/ \E p \in Paths : CleanupDir(p)
    \/ CleanupEnd
    \/ \E i \in 1..MaxJobs : BackgroundCleanup(i)

SpecJob == InitJob /\ [][NextJob]_vars

(***************************************************************************)
(* Properties of the Jobs and of the cleanup.                              *)
(***************************************************************************)
\* process_file has returned or raised
JobEnded == jpc = "idle" /\ entry = "process_file"

\* C6 as stated: when process_file has ended, cleanup_temp_directories has run
\* exactly once in the Job, the tracked list is empty, and every staging
\* directory the Job allocated went through _try_cleanup_directory.
C6_CleanupRunsOncePerJob ==
    JobEnded => /\ cleanupRuns = 1
                /\ temp_dirs_to_cleanup = <<>>
                /\ jobDirs \subseteq escalated

\* C6, amended: cleanup_temp_directories runs exactly once in a Job that got as
\* far as allocating a staging directory and not at all in a Job that ended
\* before (login failed, fetch_categories raised, the input failed validation);
\* when process_file has ended the tracked list is empty and every staging
\* directory the Job allocated went through _try_cleanup_directory or was found
\* missing and skipped.
C6_CleanupRunsOncePerAllocatingJob ==
    /\ entry = "process_file" => cleanupRuns <= 1
    /\ JobEnded => /\ cleanupRuns = (IF jobDirs = {} THEN 0 ELSE 1)
                   /\ temp_dirs_to_cleanup = <<>>
                   /\ jobDirs \subseteq (escalated \cup skipped)

\* an archive Job whose stage failed after both directories were allocated has
\* ended with False, its one cleanup having escalated both
C6_Witness ==
    /\ JobEnded
    /\ jobResult = "False"
    /\ cleanupRuns = 1
    /\ Cardinality(jobDirs) = 2
    /\ jobDirs \subseteq escalated
    /\ temp_dirs_to_cleanup = <<>>

\* C7: once cleanup_temp_directories has returned, every directory it visited
\* that still exists was counted as failed and handed to the background retry;
\* no directory that still exists was counted as cleaned.
C7_ExistingDirsAreFailedAndHanded ==
    jpc = "idle" =>
        \A p \in cleaned \cup failed \cup skipped :
            fs[p].exists => (p \in failed /\ p \in handed /\ p \notin cleaned)

\* a call of cleanup_temp_directories has returned: it did not raise
CleanupReturnedNormally ==
    (jpc = "idle" /\ cleanupRuns > 0) => jobResult \in {"True", "False", "None"}

\* the call made right after another one visits and escalates no directory and
\* schedules no retry
SecondCallDoesNothing ==
    entry = "cleanup_temp_directories" =>
        /\ todo = {}
        /\ escalated = {}
        /\ skipped = {}
        /\ handed = {}
        /\ temp_dirs_to_cleanup = <<>>

\* a step of the call made right after another one leaves the file system, the
\* tracked list and the background threads as they are
SecondCallStep ==
    (entry' = "cleanup_temp_directories" /\ (jpc' # jpc \/ todo' # todo))
        => (fs' = fs /\ temp_dirs_to_cleanup' = temp_dirs_to_cleanup /\ bg' = bg)

\* C8: cleanup_temp_directories returns normally whatever state the tracked
\* directories are in (missing, read-only, undeletable), and is idempotent: a
\* call made right after another one attempts no deletion and leaves the file
\* system and the tracked list unchanged.
C8_CleanupNeverRaisesAndIsIdempotent ==
    /\ [](CleanupReturnedNormally /\ SecondCallDoesNothing)
    /\ [][SecondCallStep]_vars

\* the second call has returned while a directory the first could not delete is
\* still on disk
C8_Witness ==
    /\ entry = "cleanup_temp_directories"
    /\ jpc = "idle"
    /\ jobResult = "None"
    /\ cleanupRuns = 1
    /\ \E p \in Paths : fs[p].exists /\ HasAttr(fs[p], "locked")

\* the plain recursive remove was the first method tried and did not succeed
PlainRemoveFailed(e) == Len(e.tried) >= 2 /\ e.tried[1] = 1

\* C9: when _try_cleanup_directory is applied to a directory that holds a
\* read-only file and the plain recursive remove fails, the chmod-then-delete
\* method is tried next and the directory no longer exists when the escalation
\* returns.
C9_ReadOnlyDirIsRemovedByChmod ==
    (esc.applied /\ HasAttr(esc.before, "readonly") /\ PlainRemoveFailed(esc))
        => /\ esc.tried = <<1, 2>>
           /\ esc.ok
           /\ ~esc.after.exists

C9_Witness ==
    /\ esc.applied
    /\ HasAttr(esc.before, "readonly")
    /\ PlainRemoveFailed(esc)
    /\ esc.tried = <<1, 2>>
    /\ ~esc.after.exists
    /\ ~fs[esc.path].exists

\* C10: no staging path is allocated by two Jobs of the process.
C10_StagingPathsAreUnique ==
    \A p \in Paths : Cardinality(allocatedBy[p]) <= 1

\* cleanup_temp_directories returns to its caller (and with it process_file,
\* when the call is the one of the pipeline's finally)
CleanupReturns == jpc = "cleanup_loop" /\ jpc' = "idle"

\* the thread bg[i] ends in this step, having applied one escalation to
\* directories of its list that existed and touched nothing else
ThreadRanOnce(i) ==
    /\ bg' = Without(bg, i)
    /\ \A p \in Paths :
          \/ fs'[p] = fs[p]
          \/ /\ p \in bg[i].left
             /\ fs[p].exists
             /\ fs'[p] \in EscalationOutcomes(fs[p])

\* C30: the background retry runs in a thread of its own that the foreground
\* does not wait for: the step in which cleanup_temp_directories (and
\* process_file) returns after a failure leaves the thread started and not yet
\* run, with the disk as it was; the thread applies the escalation at most once
\* to each directory it was given and then ends; no thread is started but by
\* cleanup_temp_directories, so the thread schedules no further retry.
C30_BackgroundRetryIsDetachedAndSingle ==
    [][/\ (CleanupReturns /\ failed # {}) =>
            /\ Len(bg') = Len(bg) + 1
            /\ SubSeq(bg', 1, Len(bg)) = bg
            /\ bg'[Len(bg')].left = UniqueDirs(temp_dirs_to_cleanup)
            /\ fs' = fs
       /\ Len(bg') > Len(bg) => (CleanupReturns /\ failed # {})
       /\ (Len(bg') < Len(bg) \/ (fs' # fs /\ jpc' = jpc /\ todo' = todo)) =>
            \E i \in 1..Len(bg) : ThreadRanOnce(i)]_vars

\* process_file has returned, the thread it left behind has run and ended, a
\* directory it was given is still on disk and no retry is scheduled
C30_Witness ==
    /\ JobEnded
    /\ handed # {}
    /\ bg = <<>>
    /\ \E p \in handed : fs[p].exists

\* process_file has returned while the thread it started has not run yet
C30_ReturnedBeforeThreadRan ==
    /\ JobEnded
    /\ handed # {}
    /\ bg # <<>>

\* cleanup_methods of _try_cleanup_directory, in the order of the list
cleanup_methods ==
    <<"_cleanup_direct_rmtree", "_cleanup_recursive_delete", "_cleanup_file_by_file",
      "_cleanup_force_delete">>

\* the methods 1..n
FirstMethods(n) == [k \in 1..n |-> k]

\* C29: _try_cleanup_directory tries the strategies in the fixed order plain
\* recursive remove, chmod-then-delete walk, file-by-file delete, platform
\* forced delete; it stops at the first one that reports success (so the one
\* tried last is the only one that may have), and the next strategy is tried
\* whenever those before it left the directory in existence: an escalation that
\* leaves the directory on disk has tried all of them.
C29_NextStrategyTriedWhileDirExists ==
    esc.applied =>
        /\ \E n \in 1..Len(cleanup_methods) : esc.tried = FirstMethods(n)
        /\ Len(esc.tried) < Len(cleanup_methods) => esc.ok
        /\ esc.after.exists => esc.tried = FirstMethods(Len(cleanup_methods))

\* _try_cleanup_directory goes through its list in order and returns at the
\* first method that reports success
C29_OrderAndFirstSuccess ==
    esc.applied =>
        /\ \E n \in 1..Len(cleanup_methods) : esc.tried = FirstMethods(n)
        /\ Len(esc.tried) < Len(cleanup_methods) => esc.ok

\* the file-by-file delete reported success with the directory left on disk,
\* and the forced delete was not tried
C29_ForcedDeleteSkipped ==
    /\ esc.applied
    /\ esc.tried = FirstMethods(3)
    /\ esc.ok
    /\ esc.after.exists
    /\ fs[esc.path].exists

(***************************************************************************)
(* CompressionHandler.extract_file (compression_handler.py lines 71-170):  *)
(* one attempt without a password, then one per candidate password.        *)
(***************************************************************************)
\* the passwords a configuration may list
ConfiguredPasswords == {<<"pw1">>, <<"pw2">>}
\* the lists of at most n configured passwords
PasswordLists(n) == UNION {[1..k -> ConfiguredPasswords] : k \in 0..n}
\* the names process_archive derives from the archive's file name (line 189)
OriginalNames == {EmptyString, <<"name">>, <<"name", "v1">>}
\* the passwords an archive may have been made with
Secrets == {NoPassword, <<"pw2">>, <<"name">>, <<"123">>, <<"other">>}

\* os.path.splitext(name)[0]: the name without its last extension
WithoutExtension(name) ==
    IF Len(name) > 1 /\ \E i \in 1..(Len(name) - 1) : name[i] # ""
      THEN SubSeq(name, 1, Len(name) - 1)
      ELSE name

\* a variant that puts the two built-in passwords first
BuiltinsFirst(pws, name) ==
    <<EmptyString, <<"123">>>> \o pws
        \o (IF name # EmptyString THEN <<name, WithoutExtension(name)>> ELSE <<>>)

\* lines 82-85: all_passwords
AllPasswords(pws, name) ==
    pws \o (IF name # EmptyString THEN <<name, WithoutExtension(name)>> ELSE <<>>)
        \o <<EmptyString, <<"123">>>>

\* 7z opens the archive: it is not encrypted, or -p gives its password
Opens(pw) == secret = NoPassword \/ pw = secret

\* what one invocation of 7z may do: exit with status 0 or not, run into the
\* timeout of subprocess.run, or fail to start; `left` is what it leaves in
\* dest_dir (NoFile: nothing)
ToolOutcomes(pw) ==
    [kind : (IF Opens(pw) THEN {"exit0"} ELSE {}) \cup {"nonzero", "timeout"},
     left : Attrs \cup {NoFile}]
    \cup {[kind |-> "error", left |-> NoFile]}

\* a variant that never takes an attempt for a success
NeverExtracted(o) == FALSE

\* lines 95-103 / 147-155: returncode == 0 and os.walk finds a file
Extracted(o) == o.kind = "exit0" /\ o.left # NoFile

\* the record of one invocation: the candidate's index (0: no password), the
\* password given, whether 7z exited with 0 and left a file, and what dest_dir
\* held when 7z was started
Attempt(idx, pw, o, before) ==
    [idx |-> idx, pw |-> pw, ok |-> (o.kind = "exit0" /\ o.left # NoFile),
     before |-> before]

\* what is in dest_dir after 7z wrote `left` into it
Filled(before, left) == IF left = NoFile THEN before ELSE Worst(before, left)

\* shutil.rmtree / os.remove on what dest_dir holds goes through
Removable(a, released) ==
    \/ a = NoFile
    \/ PlainRemovable(IF released /\ a = "locked" THEN "plain" ELSE a, os_name)

\* a variant without the emptying loop
NotEmptied(a, released) == a

\* lines 129-134: every item of dest_dir is removed; what is left when the
\* loop got through (it raises at the first item it cannot remove)
Emptied(a, released) == IF Removable(a, released) THEN NoFile ELSE a

ReturnExtract(result) ==
    /\ xpc' = "idle"
    /\ extractResult' = result
    /\ candidate' = 0

\* lines 76-85: process_archive has made dest_dir (lines 191-195); it is
\* removed and made again, the rmtree not guarded; the candidates are listed
CallExtractFile(pws, name, sec, made) ==
    /\ xpc = "idle" /\ extractResult = "none"
    /\ passwords' = pws
    /\ original_name' = name
    /\ secret' = sec
    /\ attempts' = <<>>
    /\ outcome' = NoOutcome
    /\ \E released \in BOOLEAN :
         IF Removable(made, released)
           THEN /\ dest_dir' = NoFile
                /\ all_passwords' = AllPasswords(pws, name)
                /\ xpc' = "first"
                /\ UNCHANGED <<extractResult, candidate>>
           ELSE /\ dest_dir' = made
                /\ all_passwords' = <<>>
                /\ ReturnExtract("raised")
    /\ UNCHANGED otherThanExtract

\* lines 87-122: the attempt without -p; True when it extracted something,
\* else (status, no file, timeout, exception) on to the candidates
NoPasswordAttempt ==
    /\ xpc = "first"
    /\ \E o \in ToolOutcomes(NoPassword) :
         /\ outcome' = o
         /\ attempts' = Append(attempts, Attempt(0, NoPassword, o, dest_dir))
         /\ dest_dir' = Filled(dest_dir, o.left)
         /\ IF Extracted(o)
              THEN ReturnExtract("True")
              ELSE /\ xpc' = "scan"
                   /\ candidate' = 1
                   /\ UNCHANGED extractResult
    /\ UNCHANGED <<passwords, original_name, secret, all_passwords>>
    /\ UNCHANGED otherThanExtract

\* lines 125-167, one pass of the loop: dest_dir is emptied and 7z run with
\* -p<candidate>; an exception of the emptying or of the run goes to the next
\* candidate
TryCandidate ==
    /\ xpc = "scan"
    /\ candidate <= Len(all_passwords)
    /\ \E released \in (IF dest_dir = "locked" THEN BOOLEAN ELSE {FALSE}) :
         IF ~Removable(dest_dir, released)
           THEN /\ candidate' = candidate + 1
                /\ UNCHANGED <<xpc, extractResult, dest_dir, attempts, outcome>>
           ELSE \E o \in ToolOutcomes(all_passwords[candidate]) :
                  /\ outcome' = o
                  /\ attempts' = Append(attempts,
                                        Attempt(candidate, all_passwords[candidate], o,
                                                Emptied(dest_dir, released)))
                  /\ dest_dir' = Filled(Emptied(dest_dir, released), o.left)
                  /\ IF Extracted(o)
                       THEN ReturnExtract("True")
                       ELSE /\ candidate' = candidate + 1
                            /\ UNCHANGED <<xpc, extractResult>>
    /\ UNCHANGED <<passwords, original_name, secret, all_passwords>>
    /\ UNCHANGED otherThanExtract

\* lines 169-170: the loop is over
ScanExhausted ==
    /\ xpc = "scan"
    /\ candidate > Len(all_passwords)
    /\ ReturnExtract("False")
    /\ UNCHANGED <<passwords, original_name, secret, all_passwords, dest_dir, attempts,
                   outcome>>
    /\ UNCHANGED otherThanExtract

\* a process that runs no Job and no upload
IdleProcess ==
    /\ max_retries = MaxRetriesBound
    /\ upload_batch_size = 1
    /\ access_token = NoToken
    /\ threads = {Worker}
    /\ InitHandlers
    /\ skip_login = FALSE
    /\ enable_upload = TRUE
    /\ enable_publish = TRUE
    /\ InitProcessor

InitExtractFile ==
    /\ IdleProcess
    /\ os_name \in OsNames
    /\ InitTools

NextExtractFile ==
    \/ \E pws \in PasswordLists(MaxPasswords), name \in OriginalNames, sec \in Secrets,
          made \in {NoFile, "plain", "locked"} : CallExtractFile(pws, name, sec, made)
    \/ NoPasswordAttempt
    \/ TryCandidate
    \/ ScanExhausted

SpecExtract == InitExtractFile /\ [][NextExtractFile]_vars

\* the candidate order the specification gives
ClaimedOrder ==
    passwords
        \o (IF original_name # EmptyString
              THEN <<original_name, WithoutExtension(original_name)>> ELSE <<>>)
        \o <<EmptyString, <<"123">>>>

\* C11: the first invocation of 7z is the one without a password; when it
\* exits with status 0 and leaves a file in dest_dir, extract_file has returned
\* True and no candidate password was tried.
C11_NoPasswordSuccessStopsTheScan ==
    attempts # <<>> =>
        /\ attempts[1].idx = 0 /\ attempts[1].pw = NoPassword
        /\ attempts[1].ok => /\ xpc = "idle"
                             /\ extractResult = "True"
                             /\ Len(attempts) = 1

\* an unencrypted archive was extracted by the first attempt although
\* candidates were listed
C11_Witness ==
    /\ extractResult = "True"
    /\ Len(attempts) = 1
    /\ attempts[1].ok
    /\ Len(all_passwords) > 2

\* C12: after the attempt without a password the invocations of 7z take the
\* candidates in the order configured passwords, original name, original name
\* without extension, "", "123"; extract_file returns True at the first
\* invocation that exits with 0 and leaves a file, and no invocation follows it.
C12_CandidatesAreTriedInOrder ==
    LET n == Len(attempts)
    IN  /\ \A k \in 2..n :
              /\ attempts[k].idx \in 1..Len(ClaimedOrder)
              /\ attempts[k].pw = ClaimedOrder[attempts[k].idx]
              /\ attempts[k].idx > attempts[k - 1].idx
        /\ \A k \in 1..(n - 1) : ~attempts[k].ok
        /\ (n > 0 /\ attempts[n].ok) => (xpc = "idle" /\ extractResult = "True")
        /\ extractResult = "True" => (n > 0 /\ attempts[n].ok)

\* the archive was opened by the original name after the attempt without a
\* password and a configured password had failed, the built-in ones untried
C12_Witness ==
    /\ extractResult = "True"
    /\ Len(passwords) >= 1
    /\ Len(attempts) = Len(passwords) + 2
    /\ attempts[Len(attempts)].pw = original_name
    /\ attempts[Len(attempts)].idx = Len(passwords) + 1

\* 7z was invoked for every candidate
EveryCandidateTried ==
    {attempts[k].idx : k \in 1..Len(attempts)} = 0..Len(all_passwords)

\* C13: a failed invocation never ends the scan; extract_file returns False
\* only after 7z was invoked for every candidate, an archive whose password is
\* its own base name is extracted, and 7z is invoked at most once without a
\* password and once per candidate.
C13_FailuresNeverEndTheScan ==
    /\ Len(attempts) <= 1 + Len(all_passwords)
    /\ extractResult = "False" => EveryCandidateTried
    /\ (extractResult = "False" /\ original_name # EmptyString)
          => secret # original_name \/ \E k \in 1..Len(attempts) :
                                          attempts[k].pw = secret /\ ~attempts[k].ok

\* C28: every invocation of 7z by extract_file, with or without a password,
\* starts with dest_dir empty; when extract_file has returned True, dest_dir
\* holds what the winning invocation left there and nothing an earlier failed
\* one did.
C28_EveryInvocationStartsEmpty ==
    /\ \A k \in 1..Len(attempts) : attempts[k].before = NoFile
    /\ extractResult = "True" => dest_dir = outcome.left

\* a failed invocation has left something in dest_dir and candidates remain
C28_LeftoverBeforeNextCandidate ==
    /\ xpc = "scan"
    /\ candidate <= Len(all_passwords)
    /\ attempts # <<>>
    /\ dest_dir # NoFile

\* extract_file has returned True on a candidate password after failed
\* invocations, and dest_dir holds what that invocation extracted
C28_Witness ==
    /\ extractResult = "True"
    /\ Len(attempts) >= 3
    /\ attempts[Len(attempts)].ok
    /\ attempts[Len(attempts)].before = NoFile
    /\ dest_dir = outcome.left
    /\ dest_dir # NoFile

(***************************************************************************)
(* Properties of the pipeline of a Job.                                    *)
(***************************************************************************)
\* a stage of the running Job has failed: only the cleanup runs, the failed
\* stage is the last one run, False is what will be returned, and the Job's
\* APIHandler has uploaded and submitted nothing
AbortedAfterFailure ==
    stageFailed # "none" =>
        /\ jpc \in {"cleanup", "cleanup_loop"}
        /\ stagesRun[Len(stagesRun)] = stageFailed
        /\ pending = FALSE
        /\ pc[Worker] = "idle"
        /\ all_uploaded_urls[Worker] = <<>>
        /\ returned[Worker] \notin {"upload_files", "submit_article"}

\* no stage runs twice in a Job
NoStageRunsAgain ==
    \A i, j \in 1..Len(stagesRun) : stagesRun[i] = stagesRun[j] => i = j

\* process_file returns False when a stage has failed
FailureIsReported ==
    (stageFailed # "none" /\ jpc' = "idle") => jobResult' = "False"

C15_ProcessFileReturnsTrue ==
    (/\ JobEnded
     /\ ~skip_login /\ enable_upload /\ enable_publish
     /\ returned[Worker] = "ensure_login" /\ retBool[Worker]
     /\ loginFailed[Worker] = 0)
        => jobResult = "True"

(***************************************************************************)
(* File names as sequences of characters, and _natural_sort_key            *)
(* (file_processor.py lines 365-372, api_handler.py lines 249-259).        *)
(***************************************************************************)
\* the characters of the model in the order of their code points; "U+FF11" is
\* the fullwidth digit one, a decimal digit that is not in [0-9]
Chars ==
    <<".", "/", "0", "1", "2", "3", "4", "5", "6", "7", "8", "9",
      "A", "B", "C", "D", "E", "F", "G", "H", "I", "J", "K", "L", "M",
      "N", "O", "P", "Q", "R", "S", "T", "U", "V", "W", "X", "Y", "Z", "_",
      "a", "b", "c", "d", "e", "f", "g", "h", "i", "j", "k", "l", "m",
      "n", "o", "p", "q", "r", "s", "t", "u", "v", "w", "x", "y", "z", "U+FF11">>
CharSet == {Chars[i] : i \in 1..Len(Chars)}
Code(ch) == CHOOSE i \in 1..Len(Chars) : Chars[i] = ch

\* the class [0-9] of the regular expression
AsciiDigits == {"0", "1", "2", "3", "4", "5", "6", "7", "8", "9"}
\* the characters int() takes for decimal digits
IsDecimal(ch) == ch \in AsciiDigits \/ ch = "U+FF11"
DigitValue(ch) == IF ch = "U+FF11" THEN 1 ELSE Code(ch) - Code("0")
DigitChar(d) == Chars[Code("0") + d]

\* int(s) of a string of decimal digits
RECURSIVE IntValue(_)
IntValue(s) ==
    IF s = <<>> THEN 0
    ELSE IntValue(SubSeq(s, 1, Len(s) - 1)) * 10 + DigitValue(s[Len(s)])

\* re.split('([0-9]+)', text): the pieces between the runs of [0-9] and the
\* runs themselves, alternating, the first and the last piece possibly empty
RECURSIVE Split(_)
Split(text) ==
    LET digitsAt == {i \in 1..Len(text) : text[i] \in AsciiDigits}
    IN  IF digitsAt = {} THEN <<text>>
        ELSE LET first == CHOOSE i \in digitsAt : \A j \in digitsAt : i <= j
                 last == CHOOSE i \in first..Len(text) :
                            /\ \A j \in first..i : text[j] \in AsciiDigits
                            /\ (i = Len(text) \/ text[i + 1] \notin AsciiDigits)
             IN  <<SubSeq(text, 1, first - 1), SubSeq(text, first, last)>>
                     \o Split(SubSeq(text, last + 1, Len(text)))

\* an element of a key: an int or a str
IntElem(n) == [isInt |-> TRUE, num |-> n, str |-> <<>>]
StrElem(s) == [isInt |-> FALSE, num |-> 0, str |-> s]

\* tryint: int(s), or s itself when int raises
tryint(piece) ==
    IF piece # <<>> /\ \A i \in 1..Len(piece) : IsDecimal(piece[i])
      THEN IntElem(IntValue(piece))
      ELSE StrElem(piece)

\* FileProcessor._natural_sort_key(text)
_natural_sort_key(text) ==
    LET pieces == Split(text) IN [i \in 1..Len(pieces) |-> tryint(pieces[i])]

\* APIHandler._natural_sort_key(text): [dirname] + the key of the file name
ApiSortKey(dirname, filename) == <<StrElem(dirname)>> \o _natural_sort_key(filename)

\* str < str: by code point, a proper prefix first
StrLess(a, b) ==
    LET n == Min(Len(a), Len(b))
        diff == {i \in 1..n : a[i] # b[i]}
    IN  IF diff = {} THEN Len(a) < Len(b)
        ELSE LET i == CHOOSE d \in diff : \A e \in diff : d <= e
             IN  Code(a[i]) < Code(b[i])

\* list < list as sort does it: the first pair of unequal elements decides, and
\* comparing an int with a str raises TypeError
ListCompare(k1, k2) ==
    LET n == Min(Len(k1), Len(k2))
        diff == {i \in 1..n : k1[i] # k2[i]}
    IN  IF diff = {}
          THEN IF Len(k1) < Len(k2) THEN "lt"
               ELSE IF Len(k1) > Len(k2) THEN "gt" ELSE "eq"
        ELSE LET i == CHOOSE d \in diff : \A e \in diff : d <= e
             IN  IF k1[i].isInt # k2[i].isInt THEN "TypeError"
                 ELSE IF k1[i].isInt
                   THEN IF k1[i].num < k2[i].num THEN "lt" ELSE "gt"
                 ELSE IF StrLess(k1[i].str, k2[i].str) THEN "lt" ELSE "gt"

\* the directory the names are in, as os.path.join puts it before them
DirText == <<"d", "/">>

\* the characters the compared paths are made of
KeyAlphabet == {"a", "0", "1", "2", "U+FF11", "/"}
\* the paths of files below the directory: names joined by single separators
Texts(n) ==
    {text \in UNION {[1..k -> KeyAlphabet] : k \in 1..n} :
        /\ text[1] # "/" /\ text[Len(text)] # "/"
        /\ \A i \in 1..(Len(text) - 1) : ~(text[i] = "/" /\ text[i + 1] = "/")}

\* os.path.split(text): what stands before the last separator, and after it
LastSeparator(text) ==
    LET at == {i \in 1..Len(text) : text[i] = "/"}
    IN  IF at = {} THEN 0 ELSE CHOOSE i \in at : \A j \in at : j <= i
PathHead(text) == SubSeq(text, 1, LastSeparator(text) - 1)
PathTail(text) == SubSeq(text, LastSeparator(text) + 1, Len(text))

InitSortKey ==
    /\ IdleProcess
    /\ os_name = "nt"
    /\ InitExtract
    /\ InitArchive
    /\ InitRename
    /\ InitClean
    /\ InitMedia
    /\ InitLate
    /\ text1 \in Texts(MaxTextLen)
    /\ text2 \in Texts(MaxTextLen)
    /\ compared = "none"
    /\ comparedApi = "none"

\* all_files.sort(key=self._natural_sort_key) of _rename_files and
\* all_images.sort(key=self._natural_sort_key) of upload_files comparing the
\* two paths
CompareKeys ==
    /\ compared = "none"
    /\ compared' = ListCompare(_natural_sort_key(DirText \o text1),
                               _natural_sort_key(DirText \o text2))
    /\ comparedApi' = ListCompare(
           ApiSortKey(PathHead(DirText \o text1), PathTail(DirText \o text1)),
           ApiSortKey(PathHead(DirText \o text2), PathTail(DirText \o text2)))
    /\ UNCHANGED <<text1, text2>>
    /\ UNCHANGED otherThanKey

NextSortKey == CompareKeys

SpecSortKey == InitSortKey /\ [][NextSortKey]_vars

\* text[from..to] is a whole run of [0-9]
IsDigitRun(text, from, to) ==
    /\ 1 <= from /\ from <= to /\ to <= Len(text)
    /\ \A i \in from..to : text[i] \in AsciiDigits
    /\ (from = 1 \/ text[from - 1] \notin AsciiDigits)
    /\ (to = Len(text) \/ text[to + 1] \notin AsciiDigits)

\* a and b differ only in one run of digits, and a's has the smaller value
SmallerInOneRun(a, b) ==
    \E from \in 1..Len(a), ea \in 1..Len(a), eb \in 1..Len(b) :
        /\ IsDigitRun(a, from, ea)
        /\ IsDigitRun(b, from, eb)
        /\ SubSeq(a, 1, from - 1) = SubSeq(b, 1, from - 1)
        /\ SubSeq(a, ea + 1, Len(a)) = SubSeq(b, eb + 1, Len(b))
        /\ IntValue(SubSeq(a, from, ea)) < IntValue(SubSeq(b, from, eb))

\* of two names that differ only in one run of digits the one with the smaller
\* number sorts first
SmallerNumberFirst ==
    (compared # "none" /\ SmallerInOneRun(text1, text2))
        => (compared = "lt" /\ comparedApi = "lt")

\* C20: of two file names that differ only in one run of digits the key puts
\* the one with the smaller number first, and comparing the keys of two names
\* never compares an integer with a string.
C20_NaturalOrderIsNumericAndTotal ==
    /\ SmallerNumberFirst
    /\ compared # "TypeError"
    /\ comparedApi # "TypeError"

\* C33: the sort key of upload_files and the sort key of _rename_files order
\* every two file paths alike, paths in different sub-directories included.
C33_BothKeysOrderAlike ==
    compared # "none" => comparedApi = compared

(***************************************************************************)
(* CompressionHandler.create_archive (compression_handler.py lines         *)
(* 172-288): one run of 7z, or for the format zst an inner .7z archive     *)
(* that a second run of 7z wraps.                                          *)
(***************************************************************************)
\* config.zip_format
Formats == {"7z", "zip", "zst"}

\* what a run of 7z may leave under the name of the archive it writes:
\* nothing, a file of 0 bytes, or a file that is or is not held open
ArchiveFiles == {NoFile, "empty", "plain", "locked"}

\* what one run of 7z may do: exit with status 0 or not, run into the timeout
\* of subprocess.run, or fail to start
PackOutcomes ==
    [kind : {"exit0", "nonzero", "timeout"}, file : ArchiveFiles]
    \cup {[kind |-> "error", file |-> NoFile]}

\* lines 280 / 224: returncode == 0 and the file exists and is not empty
Packed(o) == o.kind = "exit0" /\ o.file \notin {NoFile, "empty"}

\* subprocess.run raised (TimeoutExpired or another exception)
RunRaised(o) == o.kind \in {"timeout", "error"}

\* os.remove(inner_7z_file) inside try/except: a file held open stays
RemoveFile(a, released) == IF a = "locked" /\ ~released THEN a ELSE NoFile

ReturnArchive(result) ==
    /\ apc' = "idle"
    /\ archiveResult' = result

\* config.output_dir with the separator os.path.join puts after it
OutputDir == <<"o", "/">>

\* the name of a format as characters
FormatText(fmt) ==
    IF fmt = "7z" THEN <<"7", "z">>
    ELSE IF fmt = "zip" THEN <<"z", "i", "p">>
    ELSE <<"z", "s", "t">>

\* a variant that gives the zst archive the extension of its inner archive
ZipExtensionOfInner(fmt) == <<".", "7", "z">>

\* file_processor.py lines 219-223 (and 112-116): ".7z.zst" for zst, else
\* "." and the format
ZipExtension(fmt) ==
    IF fmt = "zst" THEN <<".", "7", "z", ".", "z", "s", "t">>
    ELSE <<".">> \o FormatText(fmt)

\* line 225: os.path.join(config.output_dir, f"{safe_title}{zip_extension}")
ZipName(title, fmt) == OutputDir \o title \o ZipExtension(fmt)

\* os.path.splitext(path)[0]: the path without the extension of its last
\* component, which starts at the last dot that follows a character other than
\* a dot
SplitextRoot(path) ==
    LET from == LastSeparator(path)
        dots == {i \in (from + 1)..Len(path) :
                    path[i] = "." /\ \E j \in (from + 1)..(i - 1) : path[j] # "."}
    IN  IF dots = {} THEN path
        ELSE SubSeq(path, 1, (CHOOSE i \in dots : \A j \in dots : j <= i) - 1)

\* compression_handler.py lines 199-200: f"{base_name}.7z"
InnerName(output) == SplitextRoot(output) \o <<".", "7", "z">>

\* process_archive lines 219-233 name the archive and call create_archive;
\* lines 176-185: the format decides between the two ways
CallCreateArchive(fmt) ==
    /\ apc = "idle" /\ archiveResult = "none"
    /\ zip_name' = ZipName(safe_title, fmt)
    /\ format_type' = fmt
    /\ apc' = IF fmt = "zst" THEN "inner" ELSE "standard"
    /\ UNCHANGED <<safe_title, inner_7z_path>>
    /\ UNCHANGED <<inner_7z_file, output_file, archiveResult, innerOutcome, wrapOutcome>>
    /\ UNCHANGED otherThanArchive

\* _create_standard_archive on output_file (lines 249-288)
StandardArchive ==
    /\ apc = "standard"
    /\ \E o \in PackOutcomes :
         /\ output_file' = o.file
         /\ ReturnArchive(ResultOf(Packed(o)))
    /\ UNCHANGED <<safe_title, zip_name, inner_7z_path>>
    /\ UNCHANGED <<format_type, inner_7z_file, innerOutcome, wrapOutcome>>
    /\ UNCHANGED otherThanArchive

\* _create_zst_archive lines 198-209: _create_standard_archive on
\* inner_7z_file; its False is returned at once
InnerArchive ==
    /\ apc = "inner"
    /\ \E o \in PackOutcomes :
         /\ innerOutcome' = o
         /\ inner_7z_file' = o.file
         /\ inner_7z_path' = InnerName(zip_name)
         /\ IF Packed(o)
              THEN apc' = "wrap" /\ UNCHANGED archiveResult
              ELSE ReturnArchive("False")
    /\ UNCHANGED <<safe_title, zip_name>>
    /\ UNCHANGED <<format_type, output_file, wrapOutcome>>
    /\ UNCHANGED otherThanArchive

\* _create_zst_archive lines 211-247: 7z a -tzstd; on success the inner file
\* is removed (a failure to remove it is logged) and True returned; on a
\* failed run it is removed if it can be and False returned; an exception of
\* subprocess.run goes to the outer except, which returns False
WrapArchive ==
    /\ apc = "wrap"
    /\ \E o \in PackOutcomes, released \in BOOLEAN :
         /\ wrapOutcome' = o
         /\ output_file' = o.file
         /\ IF RunRaised(o)
              THEN /\ UNCHANGED inner_7z_file
                   /\ ReturnArchive("False")
              ELSE /\ inner_7z_file' = RemoveFile(inner_7z_file, released)
                   /\ ReturnArchive(ResultOf(Packed(o)))
    /\ UNCHANGED <<safe_title, zip_name, inner_7z_path>>
    /\ UNCHANGED <<format_type, innerOutcome>>
    /\ UNCHANGED otherThanArchive

\* the characters of the titles, and the titles of at most n of them
TitleAlphabet == {"a", ".", "7", "z"}
Titles(n) == UNION {[1..k -> TitleAlphabet] : k \in 1..n}

InitCreateArchive ==
    /\ IdleProcess
    /\ os_name \in OsNames
    /\ InitExtract
    /\ InitRename
    /\ InitKey
    /\ InitClean
    /\ InitMedia
    /\ InitLate
    /\ safe_title \in Titles(MaxNameLen)
    /\ ArchiveIdle

NextCreateArchive ==
    \/ \E fmt \in Formats : CallCreateArchive(fmt)
    \/ StandardArchive
    \/ InnerArchive
    \/ WrapArchive

SpecArchive == InitCreateArchive /\ [][NextCreateArchive]_vars

\* C16: when create_archive with the format zst has returned True, the inner
\* .7z file is not in the output directory.
C16_InnerFileRemovedOnSuccess ==
    (format_type = "zst" /\ archiveResult = "True") => inner_7z_file = NoFile

\* C17: when create_archive with the format zst has returned False, whichever
\* of the two runs failed, timed out or raised, no inner .7z file is left.
C17_InnerFileRemovedOnFailure ==
    (format_type = "zst" /\ archiveResult = "False") => inner_7z_file = NoFile

\* C32: for every output path that create_archive is given with the format
\* zst, the path of the inner archive differs from it: the wrapping run of 7z
\* does not read the file it writes.
C32_InnerPathDiffersFromOutput ==
    (format_type = "zst" /\ inner_7z_path # NoPath) => inner_7z_path # zip_name

\* C32 witness: a title that ends like the inner archive, wrapped with success
C32_Witness ==
    /\ format_type = "zst" /\ archiveResult = "True"
    /\ safe_title = <<".", "7", "z">>
    /\ zip_name = OutputDir \o <<".", "7", "z", ".", "7", "z", ".", "z", "s", "t">>
    /\ inner_7z_path = OutputDir \o <<".", "7", "z", ".", "7", "z", ".", "7", "z">>

(***************************************************************************)
(* FileProcessor._rename_files (file_processor.py lines 374-416), run on   *)
(* copy A of a directory, on its identical copy B, and on copy A again.    *)
(***************************************************************************)
\* config.image_prefix and config.video_prefix as shipped
image_prefix == <<"c", "o", "s", "f", "a", "n", ".", "c", "c", "_">>
video_prefix == <<"v", "i", "d", "e", "o", "_">>

image_extensions ==
    {<<".", "j", "p", "g">>, <<".", "j", "p", "e", "g">>, <<".", "p", "n", "g">>,
     <<".", "w", "e", "b", "p">>, <<".", "b", "m", "p">>, <<".", "t", "i", "f", "f">>,
     <<".", "g", "i", "f">>}
video_extensions ==
    {<<".", "m", "p", "4">>, <<".", "a", "v", "i">>, <<".", "m", "o", "v">>,
     <<".", "m", "k", "v">>, <<".", "f", "l", "v">>, <<".", "w", "m", "v">>,
     <<".", "3", "g", "p">>, <<".", "m", "4", "v">>}

\* the directory and its subdirectory, as os.walk joins them to the names
Folders == {"top", "sub"}
FolderText(d) == IF d = "top" THEN <<"d", "/">> ELSE <<"d", "/", "b", "/">>

\* the files a directory may hold before the call; each holds its own content,
\* named by its place in this list
Fixture ==
    <<[dir |-> "top", name |-> <<"a", ".", "j", "p", "g">>],
      [dir |-> "top", name |-> <<"i", "m", "g", "2", ".", "j", "p", "g">>],
      [dir |-> "top", name |-> <<"i", "m", "g", "0", "2", ".", "j", "p", "g">>],
      [dir |-> "top", name |-> <<"b", ".", "g", "i", "f">>],
      [dir |-> "top", name |-> <<"m", ".", "m", "p", "4">>],
      [dir |-> "top", name |-> <<"n", ".", "d", "a", "t">>],
      [dir |-> "top", name |-> image_prefix \o <<"0", "0", "1", ".", "j", "p", "g">>],
      [dir |-> "sub", name |-> <<"x", ".", "j", "p", "g">>]>>

FileAt(i) == [dir |-> Fixture[i].dir, name |-> Fixture[i].name, content |-> i]

\* the directories of at most n files
Inputs(n) ==
    {{FileAt(i) : i \in picked} :
        picked \in {q \in SUBSET (1..Len(Fixture)) : q # {} /\ Cardinality(q) <= n}}

\* os.path.join(root, file)
PathText(f) == FolderText(f.dir) \o f.name
PathOf(f) == [dir |-> f.dir, name |-> f.name]

\* str.lower() on one character
Lower(ch) ==
    IF Code(ch) \in Code("A")..Code("Z")
      THEN Chars[Code(ch) - Code("A") + Code("a")]
      ELSE ch

\* Path(file).suffix.lower(): from the last dot on, none for a leading dot,
\* in lower case
Suffix(name) ==
    LET dots == {i \in 2..Len(name) : name[i] = "."}
        last == CHOOSE i \in dots : \A j \in dots : j <= i
    IN  IF dots = {} THEN <<>>
        ELSE [k \in 1..(Len(name) - last + 1) |-> Lower(name[last + k - 1])]

\* str(n)
RECURSIVE Decimal(_)
Decimal(n) == IF n < 10 THEN <<DigitChar(n)>>
              ELSE Decimal(n \div 10) \o <<DigitChar(n % 10)>>
\* f"{n:03d}"
RECURSIVE ZeroPadded(_)
ZeroPadded(digits) == IF Len(digits) < 3 THEN ZeroPadded(<<"0">> \o digits) ELSE digits
Format03d(n) == ZeroPadded(Decimal(n))

\* the orders of the elements of S
Orders(S) ==
    {o \in [1..Cardinality(S) -> S] : \A i, j \in 1..Cardinality(S) : o[i] = o[j] => i = j}

\* all_files after os.walk and the stable sort by _natural_sort_key: in the
\* order of the keys, files of equal keys in the order os.walk listed them,
\* which is the file system's
SortedListings(files) ==
    {o \in Orders(files) :
        \A i, j \in 1..Cardinality(files) :
            i < j => ListCompare(_natural_sort_key(PathText(o[i])),
                                 _natural_sort_key(PathText(o[j]))) \in {"lt", "eq"}}

\* the calls of the scenario: copy A, its identical copy B, copy A again
Schedule == <<"A", "B", "A">>
\* the copy the n-th call runs on (the last one once the calls are over)
RunCopy(n) == IF n <= Len(Schedule) THEN Schedule[n] ELSE Schedule[Len(Schedule)]

\* shutil.move(file_path, new_path) inside a directory: a file that bears the
\* new name is replaced
Move(files, from, to) ==
    LET src == CHOOSE f \in files : PathOf(f) = from
    IN  {f \in files : PathOf(f) # from /\ PathOf(f) # to}
            \cup {[dir |-> to.dir, name |-> to.name, content |-> src.content]}

\* lines 376-389: the files are collected and sorted, the counters start at 1
RenameBegin ==
    /\ rpc = "idle"
    /\ runNo <= Len(Schedule)
    /\ \E o \in SortedListings(tree[RunCopy(runNo)]) :
         /\ all_files' = [i \in 1..Len(o) |-> PathOf(o[i])]
         /\ sortedAtStart' = o
    /\ img_count' = 1
    /\ video_count' = 1
    /\ rpc' = "loop"
    /\ UNCHANGED <<tree, runNo, renamed, moveFailed>>
    /\ UNCHANGED otherThanRename

\* lines 391-416, one pass of the loop: the new name from the counter of the
\* file's class, and the move when the name differs; a failed move is logged
RenameStep ==
    /\ rpc = "loop"
    /\ all_files # <<>>
    /\ LET file_path == Head(all_files)
           file == file_path.name
           ext == Suffix(file)
           new_name == IF ext \in image_extensions
                         THEN image_prefix \o Format03d(img_count) \o ext
                       ELSE IF ext \in video_extensions
                         THEN video_prefix \o Format03d(video_count) \o ext
                       ELSE <<>>
           new_path == [dir |-> file_path.dir, name |-> new_name]
       IN  /\ img_count' = IF ext \in image_extensions THEN img_count + 1 ELSE img_count
           /\ video_count' = IF ext \in video_extensions /\ ext \notin image_extensions
                               THEN video_count + 1 ELSE video_count
           /\ IF new_name # <<>> /\ new_name # file
                THEN \E ok \in BOOLEAN :
                        IF ok /\ \E f \in tree[RunCopy(runNo)] : PathOf(f) = file_path
                          THEN /\ tree' = [tree EXCEPT ![RunCopy(runNo)] =
                                              Move(@, file_path, new_path)]
                               /\ UNCHANGED moveFailed
                          ELSE /\ moveFailed' = TRUE
                               /\ UNCHANGED tree
                ELSE UNCHANGED <<tree, moveFailed>>
    /\ all_files' = Tail(all_files)
    /\ UNCHANGED <<rpc, runNo, sortedAtStart, renamed>>
    /\ UNCHANGED otherThanRename

\* the loop is over: _rename_files returns
RenameEnd ==
    /\ rpc = "loop"
    /\ all_files = <<>>
    /\ rpc' = "idle"
    /\ runNo' = runNo + 1
    /\ renamed' = IF runNo = 1 THEN tree["A"] ELSE renamed
    /\ UNCHANGED <<tree, all_files, img_count, video_count, sortedAtStart, moveFailed>>
    /\ UNCHANGED otherThanRename

InitRenameFiles ==
    /\ IdleProcess
    /\ os_name = "nt"
    /\ InitExtract
    /\ InitArchive
    /\ InitKey
    /\ InitClean
    /\ InitMedia
    /\ InitLate
    /\ \E input \in Inputs(MaxFiles) : tree = [c \in Copies |-> input]
    /\ rpc = "idle"
    /\ runNo = 1
    /\ all_files = <<>>
    /\ img_count = 1
    /\ video_count = 1
    /\ sortedAtStart = <<>>
    /\ renamed = {}
    /\ moveFailed = FALSE

NextRenameFiles ==
    \/ RenameBegin
    \/ RenameStep
    \/ RenameEnd

SpecRename == InitRenameFiles /\ [][NextRenameFiles]_vars

\* the class of a file by its extension
IsImage(f) == Suffix(f.name) \in image_extensions
IsVideo(f) == Suffix(f.name) \in video_extensions

\* the name the k-th file of the sorted list is to get: its class's prefix and
\* its rank among the files of its class, in three digits; its own name when
\* it is of neither class
NameForRank(k) ==
    LET f == sortedAtStart[k]
        rank == Cardinality({i \in 1..k : IF IsImage(f) THEN IsImage(sortedAtStart[i])
                                                        ELSE IsVideo(sortedAtStart[i])})
    IN  IF IsImage(f) THEN image_prefix \o Format03d(rank) \o Suffix(f.name)
        ELSE IF IsVideo(f) THEN video_prefix \o Format03d(rank) \o Suffix(f.name)
        ELSE f.name

\* the first call on copy A has returned and every move it made went through
FirstRunDone == rpc = "idle" /\ runNo = 2 /\ ~moveFailed

\* C18: after _rename_files the i-th image of the natural order is in its
\* directory under <image_prefix><i in 3 digits><ext>, the j-th video under
\* <video_prefix><j in 3 digits><ext>, and a file of another extension under
\* its own name.
C18_FilesGetSequentialNames ==
    FirstRunDone =>
        \A k \in 1..Len(sortedAtStart) :
            [dir |-> sortedAtStart[k].dir, name |-> NameForRank(k),
             content |-> sortedAtStart[k].content] \in tree["A"]

\* C19: _rename_files run on an identical copy of the directory leaves the
\* same names with the same content under each, and run again on the directory
\* it has renamed it changes no name.
C19_RenameIsDeterministicAndIdempotent ==
    /\ (rpc = "idle" /\ runNo = 3 /\ ~moveFailed) => tree["B"] = renamed
    /\ (rpc = "idle" /\ runNo = 4 /\ ~moveFailed) => tree["A"] = renamed

\* C36: _rename_files never loses a file: when the call has returned, the
\* directory holds as many files as before it, and the content of every file
\* it held is still there (no file was overwritten by another).
C36_RenameLosesNoFile ==
    (rpc = "idle" /\ runNo = 2) =>
        /\ Cardinality(tree["A"]) = Len(sortedAtStart)
        /\ \A k \in 1..Len(sortedAtStart) :
               \E f \in tree["A"] : f.content = sortedAtStart[k].content

(***************************************************************************)
(* FileNameCleaner.clean_filename (utils.py lines 17-68): eight steps of   *)
(* regular-expression substitutions on the name, a string of characters.   *)
(***************************************************************************)
LowerCase ==
    {"a", "b", "c", "d", "e", "f", "g", "h", "i", "j", "k", "l", "m",
     "n", "o", "p", "q", "r", "s", "t", "u", "v", "w", "x", "y", "z"}
UpperCase ==
    {"A", "B", "C", "D", "E", "F", "G", "H", "I", "J", "K", "L", "M",
     "N", "O", "P", "Q", "R", "S", "T", "U", "V", "W", "X", "Y", "Z"}
\* 一-鿿, one character of the range
Cjk == {"U+4E2D"}
\* \d of a str pattern: the decimal digits of Unicode
DecimalDigits == AsciiDigits \cup {"U+FF11"}
\* \w of a str pattern
WordChars == LowerCase \cup UpperCase \cup DecimalDigits \cup Cjk \cup {"_"}
\* \s
Whitespace == {" ", "U+0009"}
\* [_\s-]
Separators == Whitespace \cup {"_", "-"}
\* [A-Za-z0-9一-鿿]
AsciiAlnumOrCjk == LowerCase \cup UpperCase \cup AsciiDigits \cup Cjk
\* [MGT] and (?:KB|MB|GB|TB) under re.IGNORECASE
UnitMGT == {"M", "G", "T", "m", "g", "t"}
UnitKMGT == UnitMGT \cup {"K", "k"}
UnitB == {"B", "b"}
\* the class of step 7, negated there
KeptChars ==
    WordChars \cup Whitespace
        \cup {"-", "(", ")", "[", "]", "U+FF08", "U+FF09", "U+3010", "U+3011",
              "U+300C", "U+300D", "U+300E", "U+300F"}
\* the bracket pairs of step 5, in the order of bracket_patterns
bracket_patterns ==
    <<<<"[", "]">>, <<"U+3010", "U+3011">>, <<"U+300C", "U+300D">>,
      <<"U+300E", "U+300F">>>>

\* the character at i is of class C
At(s, i, C) == i >= 1 /\ i <= Len(s) /\ s[i] \in C

\* the last position of the longest run of characters of C that starts at i
\* (i - 1 when there is none): a greedy C* from i
RECURSIVE RunEnd(_, _, _)
RunEnd(s, i, C) == IF At(s, i, C) THEN RunEnd(s, i + 1, C) ELSE i - 1

\* \b after a word character at i
BoundaryAfter(s, i) == ~At(s, i + 1, WordChars)

\* re.sub(pattern, '', s): ends[i] is the last position of the match that
\* starts at i (0: none); the leftmost matches, not overlapping, are cut out
RECURSIVE Cut(_, _, _)
Cut(s, ends, i) ==
    IF i > Len(s) THEN <<>>
    ELSE IF ends[i] > 0 THEN Cut(s, ends, ends[i] + 1)
    ELSE <<s[i]>> \o Cut(s, ends, i + 1)

\* ^\d+[_\s-]+ : the last position of the match at the start (0: none)
LeadingNumberEnd(s) ==
    LET d == RunEnd(s, 1, DecimalDigits)
        e == RunEnd(s, d + 1, Separators)
    IN  IF d >= 1 /\ e > d THEN e ELSE 0

\* step 1 (line 22)
RemoveLeadingNumber(s) == SubSeq(s, LeadingNumberEnd(s) + 1, Len(s))

\* step 2 (lines 25-26): filename[1:].split('#')[0] when the name starts with
\* '#' and holds another one
HashContent(s) ==
    LET later == {j \in 2..Len(s) : s[j] = "#"}
    IN  IF At(s, 1, {"#"}) /\ later # {}
          THEN SubSeq(s, 2, (CHOOSE j \in later : \A k \in later : j <= k) - 1)
          ELSE s

\* \d+P\d*V?
PageCountEnd(s, i) ==
    LET d == RunEnd(s, i, DecimalDigits)
        e == RunEnd(s, d + 2, DecimalDigits)
    IN  IF d >= i /\ At(s, d + 1, {"P"})
          THEN (IF At(s, e + 1, {"V"}) THEN e + 1 ELSE e)
          ELSE 0

\* P\d+
PNumberEnd(s, i) ==
    LET e == RunEnd(s, i + 1, DecimalDigits)
    IN  IF At(s, i, {"P"}) /\ e > i THEN e ELSE 0

\* step 3 (lines 29-30)
RemovePageCounts(s) ==
    LET t == Cut(s, [i \in 1..Len(s) |-> PageCountEnd(s, i)], 1)
    IN  Cut(t, [i \in 1..Len(t) |-> PNumberEnd(t, i)], 1)

\* \d+(?:\.\d+)?\s* from i: the last position it takes (0: no digit at i)
NumberEnd(s, i) ==
    LET d == RunEnd(s, i, DecimalDigits)
        f == RunEnd(s, d + 2, DecimalDigits)
        n == IF At(s, d + 1, {"."}) /\ f >= d + 2 THEN f ELSE d
    IN  IF d >= i THEN RunEnd(s, n + 1, Whitespace) ELSE 0

\* \d+(?:\.\d+)?\s*(?:KB|MB|GB|TB)\b
SizeUnitEnd(s, i) ==
    LET w == NumberEnd(s, i)
    IN  IF w > 0 /\ At(s, w + 1, UnitKMGT) /\ At(s, w + 2, UnitB) /\ BoundaryAfter(s, w + 2)
          THEN w + 2 ELSE 0

\* [MGT]?B from i, followed by a boundary when one is asked for (0: no match)
BytesEnd(s, i, boundary) ==
    IF At(s, i, UnitMGT) /\ At(s, i + 1, UnitB) /\ (boundary => BoundaryAfter(s, i + 1))
      THEN i + 1
    ELSE IF At(s, i, UnitB) /\ (boundary => BoundaryAfter(s, i))
      THEN i
    ELSE 0

\* \d+(?:\.\d+)?\s*[MGT]?B\b
SizeEnd(s, i) ==
    LET w == NumberEnd(s, i)
    IN  IF w > 0 THEN BytesEnd(s, w + 1, TRUE) ELSE 0

\* _\d+[MGT]?B_?
UnderscoreSizeEnd(s, i) ==
    LET d == RunEnd(s, i + 1, DecimalDigits)
        b == BytesEnd(s, d + 1, FALSE)
    IN  IF At(s, i, {"_"}) /\ d > i /\ b > 0
          THEN (IF At(s, b + 1, {"_"}) THEN b + 1 ELSE b)
          ELSE 0

\* ^\d+[MGT]?B\b
LeadingSizeEnd(s, i) ==
    LET d == RunEnd(s, 1, DecimalDigits)
    IN  IF i = 1 /\ d >= 1 THEN BytesEnd(s, d + 1, TRUE) ELSE 0

\* step 4 (lines 33-40): the four size_patterns, one after the other
RemoveSizes(s) ==
    LET t1 == Cut(s, [i \in 1..Len(s) |-> SizeUnitEnd(s, i)], 1)
        t2 == Cut(t1, [i \in 1..Len(t1) |-> SizeEnd(t1, i)], 1)
        t3 == Cut(t2, [i \in 1..Len(t2) |-> UnderscoreSizeEnd(t2, i)], 1)
    IN  Cut(t3, [i \in 1..Len(t3) |-> LeadingSizeEnd(t3, i)], 1)

\* open [^close]* close
BracketEnd(s, i, pair) ==
    LET later == {j \in (i + 1)..Len(s) : s[j] = pair[2]}
    IN  IF At(s, i, {pair[1]}) /\ later # {}
          THEN CHOOSE j \in later : \A k \in later : j <= k
          ELSE 0

\* step 5 (lines 43-51): the bracket_patterns from the k-th on
RECURSIVE RemoveBrackets(_, _)
RemoveBrackets(s, k) ==
    IF k > Len(bracket_patterns) THEN s
    ELSE RemoveBrackets(Cut(s, [i \in 1..Len(s) |-> BracketEnd(s, i, bracket_patterns[k])], 1),
                        k + 1)

\* \d+_[A-Za-z0-9一-鿿]+
NumberedTagEnd(s, i) ==
    LET d == RunEnd(s, i, DecimalDigits)
        e == RunEnd(s, d + 2, AsciiAlnumOrCjk)
    IN  IF d >= i /\ At(s, d + 1, {"_"}) /\ e >= d + 2 THEN e ELSE 0

\* step 6 (line 54)
RemoveNumberedTags(s) == Cut(s, [i \in 1..Len(s) |-> NumberedTagEnd(s, i)], 1)

\* step 7 (line 57)
IsKept(ch) == ch \in KeptChars
RemoveSpecials(s) == SelectSeq(s, IsKept)

\* re.sub(r'\s+', ' ', s)
RECURSIVE CollapseSpaces(_, _)
CollapseSpaces(s, i) ==
    IF i > Len(s) THEN <<>>
    ELSE IF At(s, i, Whitespace)
      THEN <<" ">> \o CollapseSpaces(s, RunEnd(s, i, Whitespace) + 1)
    ELSE <<s[i]>> \o CollapseSpaces(s, i + 1)

\* the first position of the longest run of characters of C that ends at i
RECURSIVE RunStart(_, _, _)
RunStart(s, i, C) == IF At(s, i, C) THEN RunStart(s, i - 1, C) ELSE i + 1

\* re.sub(r'[-_\s]+$', '', s)
RemoveTrailingSeparators(s) == SubSeq(s, 1, RunStart(s, Len(s), Separators) - 1)

\* str.strip()
Strip(s) == SubSeq(s, RunEnd(s, 1, Whitespace) + 1, RunStart(s, Len(s), Whitespace) - 1)

\* step 8 (lines 60-62)
Tidy(s) == Strip(RemoveTrailingSeparators(CollapseSpaces(s, 1)))

\* steps 3 to 8
StepsAfterHash(s) ==
    Tidy(RemoveSpecials(RemoveNumberedTags(RemoveBrackets(RemoveSizes(
        RemovePageCounts(s)), 1))))

\* steps 1 to 8
Cleaned(s) == StepsAfterHash(HashContent(RemoveLeadingNumber(s)))

\* f"unnamed_{int(time.time())}"
Unnamed(sec) == <<"u", "n", "n", "a", "m", "e", "d", "_">> \o Decimal(sec)

\* clean_filename(filename) called at the clock second sec
clean_filename(s, sec) == IF Cleaned(s) = <<>> THEN Unnamed(sec) ELSE Cleaned(s)

\* the characters of the names given to clean_filename
NameAlphabet == {"1", "B", "M", "P", "_", " ", "-", "a", "!", "#", "[", "]", "."}
Names(n) == UNION {[1..k -> NameAlphabet] : k \in 0..n}

\* the first call
CleanFilename ==
    /\ cleanOnce = <<>>
    /\ \E sec \in 0..MaxTime :
         /\ cleanOnce' = clean_filename(fileName, sec)
         /\ usedFallback' = (Cleaned(fileName) = <<>>)
    /\ UNCHANGED <<fileName, cleanTwice>>
    /\ UNCHANGED otherThanClean

\* the call on what the first one returned
CleanAgain ==
    /\ cleanOnce # <<>>
    /\ cleanTwice = <<>>
    /\ \E sec \in 0..MaxTime : cleanTwice' = clean_filename(cleanOnce, sec)
    /\ UNCHANGED <<fileName, cleanOnce, usedFallback>>
    /\ UNCHANGED otherThanClean

InitCleanFilename ==
    /\ IdleProcess
    /\ os_name = "nt"
    /\ InitExtract
    /\ InitArchive
    /\ InitRename
    /\ InitKey
    /\ InitMedia
    /\ InitLate
    /\ fileName \in Names(MaxNameLen)
    /\ cleanOnce = <<>>
    /\ cleanTwice = <<>>
    /\ usedFallback = FALSE

NextCleanFilename ==
    \/ CleanFilename
    \/ CleanAgain

SpecClean == InitCleanFilename /\ [][NextCleanFilename]_vars

\* C25: clean_filename is idempotent: for every name whose cleaned form is not
\* the time-stamped fallback, cleaning the cleaned form gives the cleaned form.
C25_CleanFilenameIsIdempotent ==
    (cleanTwice # <<>> /\ ~usedFallback) => cleanTwice = cleanOnce

\* a name through which the two calls went and gave the same
C25_Idempotent ==
    /\ cleanTwice # <<>>
    /\ ~usedFallback
    /\ cleanOnce # fileName
    /\ cleanTwice = cleanOnce

\* a name that starts with '#' and holds a second one
TagBlock(s) == At(s, 1, {"#"}) /\ \E j \in 2..Len(s) : s[j] = "#"

\* the text after the second '#'
AfterSecondHash(s) ==
    LET second == CHOOSE j \in 2..Len(s) :
                      s[j] = "#" /\ \A k \in 2..(j - 1) : s[k] # "#"
    IN  SubSeq(s, second + 1, Len(s))

\* C35: for a name that starts with '#' and holds a second '#', step 2 removes
\* everything from the start through the second '#': what clean_filename
\* returns is what steps 3 to 8 make of the text after the second '#' (the
\* fallback when they leave nothing).
C35_TagBlockIsRemoved ==
    (cleanOnce # <<>> /\ TagBlock(fileName)) =>
        LET kept == StepsAfterHash(AfterSecondHash(fileName))
        IN  IF usedFallback THEN kept = <<>> ELSE cleanOnce = kept

(***************************************************************************)
(* The image stages of process_folder after _rename_files:                 *)
(* ImageProcessor.compress_images (image_processor.py lines 35-135) and    *)
(* the collection of APIHandler.upload_files (api_handler.py lines         *)
(* 101-123), on the directory that _rename_files has renamed.              *)
(***************************************************************************)
gif_extensions == {<<".", "g", "i", "f">>}
\* supported_extensions of compress_images
supported_extensions ==
    {<<".", "j", "p", "g">>, <<".", "j", "p", "e", "g">>, <<".", "p", "n", "g">>,
     <<".", "b", "m", "p">>, <<".", "t", "i", "f", "f">>, <<".", "h", "e", "i", "c">>,
     <<".", "h", "e", "i", "f">>}
\* image_extensions of upload_files
upload_image_extensions ==
    {<<".", "j", "p", "g">>, <<".", "j", "p", "e", "g">>, <<".", "p", "n", "g">>,
     <<".", "w", "e", "b", "p">>}

\* a variant that takes for an image what _rename_files takes for one
EligibleLikeRename(ext, extensions) == ext \in image_extensions

\* `if file_ext in gif_extensions: skipped_gifs.append(...)
\*  elif file_ext in <extensions>: <list>.append(...)`
Eligible(ext, extensions) == ext \notin gif_extensions /\ ext \in extensions

\* the files a directory may hold before process_folder renames them
MediaFixture ==
    <<[dir |-> "top", name |-> <<"a", ".", "j", "p", "g">>],
      [dir |-> "top", name |-> <<"b", ".", "g", "i", "f">>],
      [dir |-> "top", name |-> <<"C", ".", "G", "I", "F">>],
      [dir |-> "top", name |-> <<"p", ".", "p", "n", "g">>],
      [dir |-> "top", name |-> <<"w", ".", "w", "e", "b", "p">>],
      [dir |-> "top", name |-> <<"m", ".", "m", "p", "4">>],
      [dir |-> "sub", name |-> <<"x", ".", "g", "i", "f">>]>>

MediaInputs(n) ==
    {{[dir |-> MediaFixture[i].dir, name |-> MediaFixture[i].name, content |-> i] :
          i \in picked} :
        picked \in {q \in SUBSET (1..Len(MediaFixture)) : q # {} /\ Cardinality(q) <= n}}

\* the directory process_folder works in
Staged == tree[Schedule[1]]

\* os.walk with the test on the extension: the paths of the files the list gets
Collected(files, extensions) ==
    {PathOf(f) : f \in {g \in files : Eligible(Suffix(g.name), extensions)}}
\* the paths logged as skipped
SkippedGifs(files) == {PathOf(f) : f \in {g \in files : Suffix(g.name) \in gif_extensions}}

\* os.path.splitext(img_path)[0] + f'.{output_format}'
NewPath(img_path, format) ==
    [dir |-> img_path.dir,
     name |-> SubSeq(img_path.name, 1, Len(img_path.name) - Len(Suffix(img_path.name)))
                \o <<".">> \o (IF format = "webp" THEN <<"w", "e", "b", "p">>
                                                  ELSE <<"a", "v", "i", "f">>)]

\* compress_images lines 39-61: the files to re-encode in the order os.walk
\* gave them; a format other than webp and avif is taken for webp
CompressBegin ==
    /\ mpc = "idle" /\ rpc = "idle" /\ runNo = 2
    /\ output_format' \in {"webp", "avif"}
    /\ \E o \in Orders(Collected(Staged, supported_extensions)) : files_to_process' = o
    /\ skipped_gifs' = SkippedGifs(Staged)
    /\ mpc' = "compress"
    /\ UNCHANGED <<all_images, encoderInputs, reencoded, renameVars>>
    /\ UNCHANGED otherThanMedia

\* lines 68-132, one pass of the loop: a file that is gone is passed over; else
\* ffmpeg reads it and writes new_path; the source is removed when that went
\* well, and whatever is at new_path is removed when it did not
CompressStep ==
    /\ mpc = "compress"
    /\ files_to_process # <<>>
    /\ LET img_path == Head(files_to_process)
           new_path == NewPath(img_path, output_format)
           there == {f \in Staged : PathOf(f) = img_path}
       IN  IF there = {}
             THEN UNCHANGED <<tree, encoderInputs, reencoded>>
             ELSE /\ encoderInputs' = encoderInputs \cup {img_path}
                  /\ \E ok \in BOOLEAN :
                       /\ tree' = [tree EXCEPT ![Schedule[1]] =
                                   IF ok
                                     THEN {f \in @ : PathOf(f) \notin {img_path, new_path}}
                                            \cup {[dir |-> new_path.dir, name |-> new_path.name,
                                                   content |-> (CHOOSE f \in there : TRUE).content]}
                                     ELSE {f \in @ : PathOf(f) # new_path}]
                       /\ reencoded' = IF ok THEN reencoded \cup {new_path}
                                             ELSE reencoded \ {new_path}
    /\ files_to_process' = Tail(files_to_process)
    /\ UNCHANGED <<mpc, output_format, skipped_gifs, all_images>>
    /\ UNCHANGED <<rpc, runNo, all_files, img_count, video_count, sortedAtStart, renamed,
                   moveFailed>>
    /\ UNCHANGED otherThanMedia

\* lines 134-135: the loop is over (or nothing was to be re-encoded)
CompressEnd ==
    /\ mpc = "compress"
    /\ files_to_process = <<>>
    /\ mpc' = "upload"
    /\ UNCHANGED <<output_format, files_to_process, skipped_gifs, all_images, encoderInputs,
                   reencoded, renameVars>>
    /\ UNCHANGED otherThanMedia

\* upload_files lines 101-123: the images the batches are cut from
UploadCollect ==
    /\ mpc = "upload"
    /\ all_images' = Collected(Staged, upload_image_extensions)
    /\ skipped_gifs' = SkippedGifs(Staged)
    /\ mpc' = "done"
    /\ UNCHANGED <<output_format, files_to_process, encoderInputs, reencoded, renameVars>>
    /\ UNCHANGED otherThanMedia

InitMediaStages ==
    /\ IdleProcess
    /\ os_name = "nt"
    /\ InitExtract
    /\ InitArchive
    /\ InitKey
    /\ InitClean
    /\ InitMedia
    /\ InitLate
    /\ \E input \in MediaInputs(MaxFiles) : tree = [c \in Copies |-> input]
    /\ rpc = "idle"
    /\ runNo = 1
    /\ all_files = <<>>
    /\ img_count = 1
    /\ video_count = 1
    /\ sortedAtStart = <<>>
    /\ renamed = {}
    /\ moveFailed = FALSE

\* process_folder lines 112-147: _rename_files once, then compress_images, then
\* upload_files
NextMediaStages ==
    \/ (runNo = 1 /\ RenameBegin)
    \/ (runNo = 1 /\ RenameStep)
    \/ (runNo = 1 /\ RenameEnd)
    \/ CompressBegin
    \/ CompressStep
    \/ CompressEnd
    \/ UploadCollect

SpecMedia == InitMediaStages /\ [][NextMediaStages]_vars

IsGif(path) == Suffix(path.name) \in gif_extensions

\* the step of _rename_files' loop that handles a .gif: the name it makes is
\* the image prefix, the image counter in three digits and ".gif"; the image
\* counter moves on and the video counter does not; the file is under that name
\* afterwards unless it had it already or the move raised
GifRenamedAsImage ==
    (rpc = "loop" /\ all_files # <<>> /\ all_files' = Tail(all_files)
       /\ IsGif(Head(all_files)))
    => LET old == Head(all_files)
           new == [dir |-> old.dir,
                   name |-> image_prefix \o Format03d(img_count) \o <<".", "g", "i", "f">>]
       IN  /\ img_count' = img_count + 1
           /\ video_count' = video_count
           /\ \/ tree' = tree /\ (moveFailed' \/ new = old)
              \/ /\ \E f \in tree[Schedule[1]] :
                      /\ PathOf(f) = old
                      /\ [dir |-> new.dir, name |-> new.name, content |-> f.content]
                            \in tree'[Schedule[1]]
                 /\ \A f \in tree'[Schedule[1]] : PathOf(f) # old

\* C21: a .gif file is never put in an upload batch (the batches are cut from
\* all_images) and is never passed to the image re-encoder, but _rename_files
\* renames it with the image prefix and an index taken from the image counter.
C21_GifIsRenamedButNeverEncodedOrUploaded ==
    /\ [](\A p \in all_images \cup encoderInputs
                     \cup {files_to_process[i] : i \in 1..Len(files_to_process)} : ~IsGif(p))
    /\ [][GifRenamedAsImage]_vars

\* the stages are over for a directory with a .gif in it: the .gif bears an
\* image name, was skipped by the upload, and another file was re-encoded and
\* is in all_images
C21_Witness ==
    /\ mpc = "done"
    /\ encoderInputs # {}
    /\ all_images # {}
    /\ \E f \in Staged :
          /\ IsGif(f)
          /\ \E n \in 1..MaxFiles : f.name = image_prefix \o Format03d(n) \o <<".", "g", "i", "f">>
          /\ PathOf(f) \in skipped_gifs
          /\ PathOf(f) \notin all_images

\* C40: for each output format of the re-encoder, every image that
\* compress_images re-encoded is among the files upload_files selects, so the
\* selection is not empty when some image was re-encoded.
C40_ReencodedImagesAreUploaded ==
    mpc = "done" => reencoded \subseteq all_images

(***************************************************************************)
(* FileProcessor._process_extracted_files (file_processor.py lines         *)
(* 300-346): what extract_file left in the extraction root is moved into   *)
(* the staging directory, a single wrapping directory being collapsed.     *)
(* A node is a file or an empty directory; its path is the sequence of the *)
(* names from the directory that holds it.                                 *)
(***************************************************************************)
\* what an archive may hold; each file holds its own content, named by its
\* place in this list
FlattenFixture ==
    <<[path |-> <<"w", "a.jpg">>, kind |-> "file"],
      [path |-> <<"w", "v", "b.jpg">>, kind |-> "file"],
      [path |-> <<"w", "w", "c.jpg">>, kind |-> "file"],
      [path |-> <<"w", "n.txt">>, kind |-> "file"],
      [path |-> <<"r.jpg">>, kind |-> "file"],
      [path |-> <<"u", "d.jpg">>, kind |-> "file"],
      [path |-> <<"t.url">>, kind |-> "file"],
      [path |-> <<"e">>, kind |-> "dir"]>>

NodeAt(i) == [path |-> FlattenFixture[i].path, kind |-> FlattenFixture[i].kind, content |-> i]

\* what extract_file can have left when it returned True: at most n nodes, one
\* file at least
ExtractedTrees(n) ==
    {{NodeAt(i) : i \in picked} :
        picked \in {q \in SUBSET (1..Len(FlattenFixture)) :
                       /\ Cardinality(q) <= n
                       /\ \E i \in q : FlattenFixture[i].kind = "file"}}

\* the names of the fixture that _clean_unwanted_files removes (lines 350-358):
\* the extension is one of unwanted_extensions
UnwantedNames == {"n.txt", "t.url"}

\* item is the path of a node or of a directory above it
IsUnder(node, item) ==
    Len(item) <= Len(node.path) /\ SubSeq(node.path, 1, Len(item)) = item

\* os.listdir(dir): the paths of the entries of the directory at path dir
ListDir(nodes, dir) ==
    {SubSeq(n.path, 1, Len(dir) + 1) : n \in {m \in nodes : IsUnder(m, dir) /\ Len(m.path) > Len(dir)}}

\* os.path.isdir(item)
IsDirectory(nodes, item) ==
    \E n \in nodes : IsUnder(n, item) /\ (Len(n.path) > Len(item) \/ n.kind = "dir")

\* a variant that moves the entries of the root whatever they are
ItemsToMoveAsTheyAre(nodes) == ListDir(nodes, <<>>)

\* lines 321-338: the children of a single directory, else the entries of the
\* root
ItemsToMove(nodes) ==
    LET content_items == ListDir(nodes, <<>>)
        item == CHOOSE only \in content_items : TRUE
    IN  IF Cardinality(content_items) = 1 /\ IsDirectory(nodes, item)
          THEN ListDir(nodes, item)
          ELSE content_items

\* shutil.move(item, processed_dir): the node is in the staging directory
\* under the last name of item and what followed it
MovedNode(node, item) == [node EXCEPT !.path = SubSeq(@, Len(item), Len(@))]

\* lines 303-323: the root is listed, the staging directory made
FlattenBegin ==
    /\ fpc = "idle"
    /\ temp_dir # {}
    /\ toMove' = ItemsToMove(temp_dir)
    /\ extractedFiles' = temp_dir
    /\ fpc' = "moving"
    /\ UNCHANGED <<temp_dir, processed_dir>>
    /\ UNCHANGED otherThanFlatten

\* one shutil.move of the loops of lines 326-338 (os.listdir gives the entries
\* in any order); an exception of it leaves the method
MoveItem ==
    /\ fpc = "moving"
    /\ \E item \in toMove, ok \in BOOLEAN :
         IF ok
           THEN /\ temp_dir' = {n \in temp_dir : ~IsUnder(n, item)}
                /\ processed_dir' = processed_dir
                      \cup {MovedNode(n, item) : n \in {m \in temp_dir : IsUnder(m, item)}}
                /\ toMove' = toMove \ {item}
                /\ UNCHANGED fpc
           ELSE /\ fpc' = "raised"
                /\ UNCHANGED <<temp_dir, processed_dir, toMove>>
    /\ UNCHANGED extractedFiles
    /\ UNCHANGED otherThanFlatten

\* lines 340-346: _clean_unwanted_files removes the unwanted files it can
\* remove, and the directory goes to _rename_files
FlattenEnd ==
    /\ fpc = "moving"
    /\ toMove = {}
    /\ \E kept \in SUBSET {n \in processed_dir : n.path[Len(n.path)] \in UnwantedNames} :
         processed_dir' = {n \in processed_dir :
                              n.path[Len(n.path)] \in UnwantedNames => n \in kept}
    /\ fpc' = "rename"
    /\ UNCHANGED <<temp_dir, toMove, extractedFiles>>
    /\ UNCHANGED otherThanFlatten

InitProcessExtracted ==
    /\ IdleProcess
    /\ os_name = "nt"
    /\ InitExtract
    /\ InitArchive
    /\ InitRename
    /\ InitKey
    /\ InitClean
    /\ InitMedia
    /\ InitStages
    /\ InitHandles
    /\ fpc = "idle"
    /\ temp_dir \in ExtractedTrees(MaxFiles)
    /\ processed_dir = {}
    /\ toMove = {}
    /\ extractedFiles = {}

NextProcessExtracted ==
    \/ FlattenBegin
    \/ MoveItem
    \/ FlattenEnd

SpecFlatten == InitProcessExtracted /\ [][NextProcessExtracted]_vars

\* the root held one entry, a directory
SingleWrapper(nodes) ==
    /\ Cardinality({n.path[1] : n \in nodes}) = 1
    /\ \A n \in nodes : Len(n.path) > 1 \/ n.kind = "dir"

StageOrderReencodeFirst ==
    <<"extract_or_copy", "filter_rename", "reencode", "archive", "upload", "submit",
      "keep_images", "delete_source", "cleanup">>

\* the calls of the try block in the order of the lines they stand on
\* (97/199, 100-103/206, 122/229, 134/241, 143/250, 152/259, 163-169/270-276,
\* 279-288) and the finally (179/298)
StageOrder ==
    <<"extract_or_copy", "filter_rename", "archive", "reencode", "upload", "submit",
      "keep_images", "delete_source", "cleanup">>

\* a variant that removes the input whatever the configuration says
DeletesSourceAlways(kind, flag) == TRUE

\* line 279, which process_archive alone has: `if self.config.delete_source_files`
DeletesSource(kind, flag) == kind = "archive" /\ flag

\* the conditions under which a call of the try block is made (lines 137-160 /
\* 244-267 and 279)
StageApplies(stage) ==
    IF stage = "upload" THEN ~skip_login /\ enable_upload
    ELSE IF stage = "submit" THEN ~skip_login /\ enable_upload /\ enable_publish
    ELSE IF stage = "delete_source" THEN DeletesSource(sKind, delete_source_files)
    ELSE TRUE

\* the call made after `stage` has returned without a failure
NextStage(stage) ==
    LET at == CHOOSE i \in 1..Len(StageOrder) : StageOrder[i] = stage
        later == {j \in (at + 1)..Len(StageOrder) : StageApplies(StageOrder[j])}
    IN  StageOrder[CHOOSE j \in later : \A k \in later : j <= k]

\* the stage has returned (or raised): the next call is made, or the method
\* leaves the try block with False; reaching the end of the block returns True
StageReturns(stage, ok) ==
    /\ stageLog' = Append(stageLog, stage)
    /\ IF ok
         THEN /\ spc' = NextStage(stage)
              /\ pendingResult' = (NextStage(stage) = "cleanup")
              /\ UNCHANGED failedStage
         ELSE /\ spc' = "cleanup"
              /\ pendingResult' = FALSE
              /\ failedStage' = stage

\* process_folder / process_archive is called; an input that fails the
\* validation of lines 77-79 / 184-186 returns False before the try
CallPipeline(kind, valid) ==
    /\ spc = "idle"
    /\ sKind' = kind
    /\ IF valid
         THEN spc' = StageOrder[1] /\ UNCHANGED sResult
         ELSE spc' = "done" /\ sResult' = "False"
    /\ UNCHANGED <<delete_source_files, pendingResult, staged, archiveHolds, source, stageLog,
                   failedStage>>
    /\ UNCHANGED otherThanStages

\* line 97: shutil.copytree, which returns or raises; line 199: extract_file,
\* which returns True or False (or raises at its unguarded rmtree)
StageFill ==
    /\ spc = "extract_or_copy"
    /\ \E o \in (IF sKind = "folder" THEN {"ok", "raised"} ELSE {"ok", "false", "raised"}) :
         /\ StageReturns("extract_or_copy", o = "ok")
         /\ staged' = IF o = "ok" THEN "original" ELSE staged
    /\ UNCHANGED <<sKind, delete_source_files, sResult, archiveHolds, source>>
    /\ UNCHANGED otherThanStages

\* lines 100-103: _clean_unwanted_files and _rename_files; line 206:
\* _process_extracted_files, which does the same after its moves, returns None
\* for an empty root and raises when a move does
StageNormalize ==
    /\ spc = "filter_rename"
    /\ \E o \in (IF sKind = "folder" THEN {"ok"} ELSE {"ok", "false", "raised"}) :
         StageReturns("filter_rename", o = "ok")
    /\ UNCHANGED <<sKind, delete_source_files, sResult, staged, archiveHolds, source>>
    /\ UNCHANGED otherThanStages

\* lines 122-128 / 229-235: create_archive packs the staging directory as it
\* is; False ends the call with False
StagePackage ==
    /\ spc = "archive"
    /\ \E ok \in BOOLEAN :
         /\ StageReturns("archive", ok)
         /\ archiveHolds' = IF ok THEN staged ELSE archiveHolds
    /\ UNCHANGED <<sKind, delete_source_files, sResult, staged, source>>
    /\ UNCHANGED otherThanStages

\* line 134 / 241: compress_images re-encodes the images in place; what it
\* returns is not looked at; an exception of it leaves the try block
StageReencode ==
    /\ spc = "reencode"
    /\ \E ok \in BOOLEAN, after \in {"original", "reencoded"} :
         /\ StageReturns("reencode", ok)
         /\ staged' = after
    /\ UNCHANGED <<sKind, delete_source_files, sResult, archiveHolds, source>>
    /\ UNCHANGED otherThanStages

\* lines 143-146 / 250-253: upload_files; an empty list ends the call with
\* False
StageUpload ==
    /\ spc = "upload"
    /\ \E ok \in BOOLEAN : StageReturns("upload", ok)
    /\ UNCHANGED <<sKind, delete_source_files, sResult, staged, archiveHolds, source>>
    /\ UNCHANGED otherThanStages

\* line 152 / 259: submit_article(formatted_title, uploaded_urls,
\* uploaded_urls[0], True) passes four arguments to a method that takes three:
\* the call raises TypeError
StageSubmit ==
    /\ spc = "submit"
    /\ StageReturns("submit", FALSE)
    /\ UNCHANGED <<sKind, delete_source_files, sResult, staged, archiveHolds, source>>
    /\ UNCHANGED otherThanStages

\* lines 163-169 / 270-276: the re-encoded images are removed or copied to the
\* output directory; both methods catch what they raise
StageKeepImages ==
    /\ spc = "keep_images"
    /\ StageReturns("keep_images", TRUE)
    /\ UNCHANGED <<sKind, delete_source_files, sResult, staged, archiveHolds, source>>
    /\ UNCHANGED otherThanStages

\* lines 279-285: os.remove(file_path); a failure of it is logged
StageDeleteSource ==
    /\ spc = "delete_source"
    /\ \E removed \in BOOLEAN : source' = IF removed THEN "deleted" ELSE source
    /\ StageReturns("delete_source", TRUE)
    /\ UNCHANGED <<sKind, delete_source_files, sResult, staged, archiveHolds>>
    /\ UNCHANGED otherThanStages

\* the finally of lines 177-179 / 296-298: cleanup_temp_directories, then the
\* method returns
StageCleanup ==
    /\ spc = "cleanup"
    /\ stageLog' = Append(stageLog, "cleanup")
    /\ staged' = "none"
    /\ sResult' = ResultOf(pendingResult)
    /\ spc' = "done"
    /\ UNCHANGED <<sKind, delete_source_files, pendingResult, archiveHolds, source, failedStage>>
    /\ UNCHANGED otherThanStages

InitPipeline ==
    /\ max_retries = MaxRetriesBound
    /\ upload_batch_size = 1
    /\ access_token = NoToken
    /\ threads = {Worker}
    /\ InitHandlers
    /\ skip_login \in BOOLEAN
    /\ enable_upload \in BOOLEAN
    /\ enable_publish \in BOOLEAN
    /\ os_name = "nt"
    /\ InitProcessor
    /\ InitExtract
    /\ InitArchive
    /\ InitRename
    /\ InitKey
    /\ InitClean
    /\ InitMedia
    /\ InitFlatten
    /\ InitHandles
    /\ spc = "idle"
    /\ sKind = "folder"
    /\ delete_source_files \in BOOLEAN
    /\ pendingResult = FALSE
    /\ sResult = "none"
    /\ staged = "none"
    /\ archiveHolds = "none"
    /\ source = "intact"
    /\ stageLog = <<>>
    /\ failedStage = "none"

NextPipeline ==
    \/ \E kind \in {"folder", "archive"}, valid \in BOOLEAN : CallPipeline(kind, valid)
    \/ StageFill
    \/ StageNormalize
    \/ StagePackage
    \/ StageReencode
    \/ StageUpload
    \/ StageSubmit
    \/ StageKeepImages
    \/ StageDeleteSource
    \/ StageCleanup

SpecStages == InitPipeline /\ [][NextPipeline]_vars

\* the stages of a Job in the order the description gives them
DescribedOrder ==
    <<"extract_or_copy", "filter_rename", "archive", "reencode", "upload", "submit", "cleanup">>

PlaceIn(order, stage) == CHOOSE i \in 1..Len(order) : order[i] = stage

InOrder(order, stage) == \E i \in 1..Len(order) : order[i] = stage

HasRun(stage) == \E i \in 1..Len(stageLog) : stageLog[i] = stage

\* C31: the stages of one call run one after the other in the order
\* extract-or-copy, filter and rename, final archive, re-encoding, upload,
\* article submission, cleanup: no stage runs twice or before an earlier one,
\* the final archive never holds a re-encoded image, an upload starts only
\* after the re-encoding has returned, and the cleanup is the last stage of a
\* call that entered the try block.
C31_StagesRunInOrder ==
    /\ \A i \in 1..Len(stageLog) : \A j \in 1..Len(stageLog) :
           (i < j /\ InOrder(DescribedOrder, stageLog[i]) /\ InOrder(DescribedOrder, stageLog[j]))
               => PlaceIn(DescribedOrder, stageLog[i]) < PlaceIn(DescribedOrder, stageLog[j])
    /\ archiveHolds # "reencoded"
    /\ (spc = "reencode" \/ HasRun("reencode")) => HasRun("archive")
    /\ (spc = "upload" \/ HasRun("upload"))
           => (HasRun("reencode") /\ failedStage # "reencode")
    /\ (spc = "done" /\ stageLog # <<>>) => stageLog[Len(stageLog)] = "cleanup"
    /\ (spc = "done" /\ stageLog = <<>>) => sResult = "False"

\* an archive was extracted, normalised, packed with its original images,
\* re-encoded, uploaded, the submission was attempted, and the cleanup ran
C31_Witness ==
    /\ spc = "done"
    /\ sKind = "archive"
    /\ archiveHolds = "original"
    /\ \E i \in 1..Len(stageLog) : \E j \in 1..Len(stageLog) :
           i < j /\ stageLog[i] = "reencode" /\ stageLog[j] = "upload"
    /\ HasRun("submit")
    /\ stageLog[Len(stageLog)] = "cleanup"

\* C37: the input is deleted only when it is an archive, delete_source_files
\* is set and extraction, staging, packaging and, where they are enabled,
\* upload and article submission have all succeeded; a call that returns False
\* (a failure or an exception of any stage) and a call on a directory leave the
\* input in place.
C37_SourceDeletedOnlyAfterSuccess ==
    /\ source = "deleted" =>
           /\ sKind = "archive"
           /\ delete_source_files
           /\ failedStage = "none"
           /\ HasRun("extract_or_copy") /\ HasRun("filter_rename") /\ HasRun("archive")
           /\ (~skip_login /\ enable_upload) => HasRun("upload")
           /\ (~skip_login /\ enable_upload /\ enable_publish) => HasRun("submit")
    /\ (sKind = "folder" \/ failedStage # "none" \/ sResult = "False") => source = "intact"

\* an archive with delete_source_files set was extracted, packed and uploaded
\* with publishing switched off; the call removed it and returned True
C37_Witness ==
    /\ spc = "done" /\ sResult = "True"
    /\ sKind = "archive" /\ delete_source_files
    /\ HasRun("upload") /\ ~enable_publish
    /\ source = "deleted"

(***************************************************************************)
(* APIHandler.upload_files (api_handler.py lines 99-186) with the files it *)
(* opens: each attempt opens the images of the batch, posts them and       *)
(* closes them after the response; the answers themselves are modelled     *)
(* above.                                                                  *)
(***************************************************************************)
\* the file object opened for an image in one attempt of one batch
Handle(i, att, image) == <<i, att, image>>

\* upload_files is called on a directory with n images (an empty list
\* returns [] at line 123)
UploadFilesBegin(n) ==
    /\ upc = "idle"
    /\ uImages' = n
    /\ uStart' = 0
    /\ uAttempt' = 0
    /\ IF n = 0
         THEN upc' = "done" /\ uResult' = "empty"
         ELSE upc' = "attempt" /\ UNCHANGED uResult
    /\ UNCHANGED <<batchFiles, openHandles>>
    /\ UNCHANGED otherThanHandles

\* the method returns: the frame gives up its list `files`
ReturnFromUpload(result) ==
    /\ upc' = "done"
    /\ uResult' = result
    /\ batchFiles' = {}
    /\ UNCHANGED <<uStart, uAttempt>>

\* the for loop moves to its next attempt; its else clause (lines 181-183)
\* returns [] when there is none
NextAttempt ==
    IF uAttempt + 1 < max_retries
      THEN /\ upc' = "attempt"
           /\ uAttempt' = uAttempt + 1
           /\ UNCHANGED <<uStart, batchFiles, uResult>>
      ELSE ReturnFromUpload("empty")

\* lines 141-144: `files = []`, then open(img_path, 'rb') for each image of
\* the batch in turn; an open that raises leaves the loop for the except clause
\* of line 176 with the earlier files open
OpenBatch(opened) ==
    /\ upc = "attempt"
    /\ opened \in 0..BatchLen(uStart, uImages)
    /\ batchFiles' = {Handle(uStart, uAttempt, uStart + j) : j \in 1..opened}
    /\ openHandles' = openHandles \cup batchFiles'
    /\ upc' = IF opened = BatchLen(uStart, uImages) THEN "post" ELSE "failed"
    /\ UNCHANGED <<uImages, uStart, uAttempt, uResult>>
    /\ UNCHANGED otherThanHandles

\* lines 146-150: session.post raises (a connection error, a timeout): control
\* goes to the except clause of line 176 and the loop of lines 153-154 is not run
PostRaises ==
    /\ upc = "post"
    /\ upc' = "failed"
    /\ UNCHANGED <<uImages, uStart, uAttempt, batchFiles, openHandles, uResult>>
    /\ UNCHANGED otherThanHandles

\* lines 146-174: session.post returns, every file of the list is closed
\* (153-154), then the answer decides: "urls" breaks to the next batch, "again"
\* is a re-login that succeeded (continue), "relogin_failed" returns [], and
\* "refused" (any other answer, or a body that is no JSON) goes on to line 179
PostReturns(answer) ==
    /\ upc = "post"
    /\ openHandles' = openHandles \ batchFiles
    /\ IF answer = "urls"
         THEN IF uStart + upload_batch_size < uImages
                THEN /\ upc' = "attempt"
                     /\ uStart' = uStart + upload_batch_size
                     /\ uAttempt' = 0
                     /\ UNCHANGED <<batchFiles, uResult>>
                ELSE ReturnFromUpload("urls")
       ELSE IF answer = "again" THEN NextAttempt
       ELSE IF answer = "relogin_failed" THEN ReturnFromUpload("empty")
       ELSE upc' = "failed" /\ UNCHANGED <<uStart, uAttempt, batchFiles, uResult>>
    /\ UNCHANGED uImages
    /\ UNCHANGED otherThanHandles

\* lines 179-183: the sleep between attempts, then the next attempt or the
\* return of the else clause
AfterFailedAttempt ==
    /\ upc = "failed"
    /\ NextAttempt
    /\ UNCHANGED <<uImages, openHandles>>
    /\ UNCHANGED otherThanHandles

\* a file object that nothing refers to any more is closed when the
\* interpreter reclaims it; the language does not say when
ReclaimFile ==
    /\ \E h \in openHandles \ batchFiles : openHandles' = openHandles \ {h}
    /\ UNCHANGED <<upc, uImages, uStart, uAttempt, batchFiles, uResult>>
    /\ UNCHANGED otherThanHandles

InitUploadFiles ==
    /\ max_retries \in 1..MaxRetriesBound
    /\ upload_batch_size \in 1..MaxBatchSize
    /\ access_token = NoToken
    /\ threads = {Worker}
    /\ InitHandlers
    /\ skip_login = FALSE
    /\ enable_upload = TRUE
    /\ enable_publish = TRUE
    /\ os_name = "nt"
    /\ InitProcessor
    /\ InitExtract
    /\ InitArchive
    /\ InitRename
    /\ InitKey
    /\ InitClean
    /\ InitMedia
    /\ InitFlatten
    /\ InitStages
    /\ InitHandles

NextUploadFiles ==
    \/ \E n \in 0..MaxImages : UploadFilesBegin(n)
    \/ \E opened \in 0..MaxBatchSize : OpenBatch(opened)
    \/ PostRaises
    \/ \E answer \in {"urls", "again", "relogin_failed", "refused"} : PostReturns(answer)
    \/ AfterFailedAttempt
    \/ ReclaimFile

SpecHandles == InitUploadFiles /\ [][NextUploadFiles]_vars

\* C39: when upload_files has returned, by whatever path, no file it opened
\* for a batch attempt is still open.
C39_NoHandleLeftOpen == upc = "done" => openHandles = {}

====
